---- MODULE Spec2Model ----
(***************************************************************************)
(* WeatherCompare: the daily-to-monthly aggregation pipeline of            *)
(* comparer/weather_utils.py, its cache wrapper and the multi-year         *)
(* averager.                                                               *)
(*                                                                         *)
(* Numbers are fixed-point: every temperature and precipitation amount is  *)
(* an integer count of thousandths (10.0 is 10000), so that round(x, 2)    *)
(* is a real rounding to a multiple of 10.                                 *)
(* An optional value (Python None / pandas NaN) is the empty tuple <<>>,   *)
(* a present value x is the one-element tuple <<x>>.                       *)
(***************************************************************************)
EXTENDS Integers, Sequences, FiniteSets, TLC

VARIABLES
    api_data_json,   \* pipeline: the raw payload handed to the preparer
    daily_df,        \* pipeline: the prepared table (optional)
    monthly,         \* pipeline: the aggregator's return value (optional: not yet called)
    pc,              \* pipeline: "start", "prepared", "aggregated"
    cache,           \* the cache service: key -> optional [value, ttl]
    op,              \* the last public call: [name, year, end_year, num_years]
    ret,             \* its return value (optional: None is the failure sentinel)
    events,          \* what it did, in order: <<event, year>>
    locals,          \* its local variables when it returned
    computed,        \* per year: the last annual call that missed the cache,
                     \*   [ret, age]; age is the time since it returned
    nticks,          \* number of clock steps taken
    window_data,     \* averager: per year of a window, the year's monthly_data
                     \*   (the empty list for a year that supplied none)
    monthly_averages,\* averager: the twelve averaged entries (optional)
    degrees,         \* compass: the wind direction handed to the converter (optional)
    direction,       \* compass: the label it returned (optional: not yet called)
    limiter,         \* rate limiter: the instance's [calls_limit, time_period]
    calls_timestamps,\* rate limiter: self.calls_timestamps
    clock,           \* rate limiter: datetime.now(), in whole time units
    threads,         \* rate limiter: per worker thread, its position in
                     \*   wait_if_needed and its locals
    admitted,        \* rate limiter: every call that returned, in order:
                     \*   [thread, at, full, oldest_timestamp]
    city_names,      \* views: the list handed to _process_cities_concurrently
    futures,         \* views: per submitted task, [state, outcome, calls]
    weather_cards_data, \* views: the cards collected so far
    chart_data_list, \* views: the chart items collected so far
    processing_errors,  \* views: the messages collected so far
    returned,        \* views: the triple _process_cities_concurrently
                     \*   returned (optional: not yet returned)
    cache_dict,      \* memoize: the decorator's dictionary, key -> optional result
    workers          \* pool workers inside get_historical_annual_data_by_month:
                     \*   per thread, its position and its locals

pipeVars == <<api_data_json, daily_df, monthly, pc>>
cacheVars == <<cache, op, ret, events, locals, computed, nticks>>
avgVars == <<window_data, monthly_averages>>
compassVars == <<degrees, direction>>
limiterVars == <<limiter, calls_timestamps, clock, threads, admitted>>
viewVars == <<city_names, futures, weather_cards_data, chart_data_list,
              processing_errors, returned>>
poolVars == <<viewVars, cache_dict, workers>>
restVars == <<compassVars, limiterVars, poolVars>>
vars == <<pipeVars, cacheVars, avgVars, restVars>>

\* ------------------------------------------------------------------ bounds
MaxDays == 3
MaxTicks == 2
MaxWindow == 5
MaxDegrees == 400
MaxLimit == 2
MaxPeriod == 2
MaxClock == 3
MaxCalls == 3
MaxNameLen == 2

\* --------------------------------------------------------------- optionals
None == <<>>
Some(x) == <<x>>
IsNone(o) == o = <<>>
NotNone(o) == o # <<>>
Val(o) == o[1]

\* the parts of the state a specification does not use stay as they are here
CompassUnused == degrees = None /\ direction = None
LimiterUnused ==
    /\ limiter = None
    /\ calls_timestamps = <<>>
    /\ clock = 0
    /\ threads = <<>>
    /\ admitted = <<>>

PoolUnused ==
    /\ city_names = <<>>
    /\ futures = <<>>
    /\ weather_cards_data = <<>>
    /\ chart_data_list = <<>>
    /\ processing_errors = <<>>
    /\ returned = None
    /\ cache_dict = <<>>
    /\ workers = <<>>

\* F applied to the value of v, which is computed once
With(v, F(_)) == CHOOSE y \in {F(x) : x \in {v}} : TRUE

\* ------------------------------------------------------------- arithmetic
RECURSIVE SumSeq(_)
SumSeq(s) == IF s = <<>> THEN 0 ELSE Head(s) + SumSeq(Tail(s))

Abs(x) == IF x < 0 THEN 0 - x ELSE x

\* num/den rounded to the nearest integer, ties to the even one (den > 0)
RoundHalfEven(num, den) ==
    LET q == num \div den
        r == num % den
    IN  IF 2 * r < den THEN q
        ELSE IF 2 * r > den THEN q + 1
        ELSE IF q % 2 = 0 THEN q ELSE q + 1

\* Python round(num/den, 2) on thousandths: the nearest multiple of 10
Round2(num, den) == 10 * RoundHalfEven(num, 10 * den)

\* ----------------------------------------------------------- raw payloads
\* A raw JSON cell of a numeric column: a number, a string holding a number,
\* a string holding no number, or null.
NumCell(v) == <<"num", v>>
StrCell(v) == <<"numstr", v>>
BadCell == <<"bad", 0>>
NullCell == <<"null", 0>>

\* (a conversion that turns what is no number into 0)
to_numeric_zero_fill(cell) ==
    IF cell[1] \in {"num", "numstr"} THEN Some(cell[2]) ELSE Some(0)

\* pd.to_numeric(col, errors="coerce") on one cell
to_numeric(cell) ==
    IF cell[1] \in {"num", "numstr"} THEN Some(cell[2]) ELSE None

DEFAULT_TEMP_UNIT == "degC"
DEFAULT_PRECIP_UNIT == "mm"

\* daily_units of a payload: absent, or an object whose two keys may be absent
NoUnits == None
Units(t, p) == Some([temperature_2m_mean |-> t, precipitation_sum |-> p])

\* dict.get(key, default) on an optional column of the daily container
ColGet(daily, col) == IF NotNone(daily[col]) THEN Val(daily[col]) ELSE <<>>

\* pd.DataFrame(dict of lists): raises ValueError unless all lists have one length
SameLength(cols) ==
    /\ Len(cols.time) = Len(cols.temperature_2m_mean)
    /\ Len(cols.time) = Len(cols.precipitation_sum)

\* (a dropna that looks at the temperature column alone)
dropna_temperature_only(df) ==
    SelectSeq(df, LAMBDA row : NotNone(row.temperature_2m_mean))

\* df.dropna(subset=[temperature_2m_mean, precipitation_sum])
dropna(df) ==
    SelectSeq(df, LAMBDA row :
        NotNone(row.temperature_2m_mean) /\ NotNone(row.precipitation_sum))

\* _create_and_prepare_daily_dataframe: None, or Some(table); a table is a
\* sequence of rows [time, temperature_2m_mean, precipitation_sum] whose
\* time is the calendar month (1..12) of a valid ISO date of the year asked for
create_and_prepare_daily_dataframe(api) ==
    IF IsNone(api) \/ IsNone(Val(api).daily) THEN None
    ELSE
        LET daily == Val(Val(api).daily)
            df_data == [time |-> ColGet(daily, "time"),
                        temperature_2m_mean |-> ColGet(daily, "temperature_2m_mean"),
                        precipitation_sum |-> ColGet(daily, "precipitation_sum")]
        IN  IF ~SameLength(df_data) THEN None
            ELSE
                LET df == [i \in 1..Len(df_data.time) |->
                              [time |-> df_data.time[i],
                               temperature_2m_mean |->
                                   to_numeric(df_data.temperature_2m_mean[i]),
                               precipitation_sum |->
                                   to_numeric(df_data.precipitation_sum[i])]]
                    kept == dropna(df)
                IN  IF kept = <<>> THEN None ELSE Some(kept)

\* ------------------------------------------------------ monthly aggregator
Months == 1..12

\* the present values of one column over the rows of month m (pandas skips NaN)
ColOfMonth(df, m, col) ==
    LET rows == SelectSeq(df, LAMBDA row : row.time = m /\ NotNone(row[col]))
    IN  [i \in 1..Len(rows) |-> Val(rows[i][col])]

MinMonth(df) == CHOOSE m \in Months :
    /\ \E i \in 1..Len(df) : df[i].time = m
    /\ \A i \in 1..Len(df) : df[i].time >= m
MaxMonth(df) == CHOOSE m \in Months :
    /\ \E i \in 1..Len(df) : df[i].time = m
    /\ \A i \in 1..Len(df) : df[i].time <= m

\* daily_df.resample("ME"): one bin per month end from the first to the last
\* month that holds a row, the months in between included
resample_ME(df) == MinMonth(df)..MaxMonth(df)

\* .agg("mean"): NaN for a bin without values
agg_mean(vals) ==
    IF vals = <<>> THEN None ELSE Some([num |-> SumSeq(vals), den |-> Len(vals)])

\* .agg("sum"): 0 for a bin without values
agg_sum(vals) == Some(SumSeq(vals))

NullMonth(m) == [month |-> m, avg_temp |-> None, total_precip |-> None]

AllNullMonths == [m \in Months |-> NullMonth(m)]

MonthEntry(df, m) ==
    LET mean == agg_mean(ColOfMonth(df, m, "temperature_2m_mean"))
        total == agg_sum(ColOfMonth(df, m, "precipitation_sum"))
    IN  [month |-> m,
         avg_temp |-> IF NotNone(mean)
                      THEN Some(Round2(Val(mean).num, Val(mean).den)) ELSE None,
         total_precip |-> IF NotNone(total)
                          THEN Some(Round2(Val(total), 1)) ELSE None]

\* (an aggregator that answers an absent or empty table with twelve nulls)
aggregate_twelve_nulls_when_empty(df, year) ==
    IF IsNone(df) \/ Val(df) = <<>> THEN AllNullMonths
    ELSE
        LET bins == resample_ME(Val(df))
        IN  [m \in Months |->
                IF m \in bins THEN MonthEntry(Val(df), m) ELSE NullMonth(m)]

\* (an aggregator that emits one entry per resampled bin instead of updating
\* a pre-created list of twelve)
aggregate_one_entry_per_bin(df, year) ==
    IF IsNone(df) \/ Val(df) = <<>> THEN <<>>
    ELSE
        LET lo == MinMonth(Val(df))
            hi == MaxMonth(Val(df))
        IN  [i \in 1..(hi - lo + 1) |-> MonthEntry(Val(df), lo + i - 1)]

\* _aggregate_daily_data_to_monthly (the function under the memoize wrapper)
aggregate_daily_data_to_monthly(df, year) ==
    IF IsNone(df) \/ Val(df) = <<>> THEN <<>>
    ELSE
        LET bins == resample_ME(Val(df))
        IN  [m \in Months |->
                IF m \in bins THEN MonthEntry(Val(df), m) ELSE NullMonth(m)]

\* ------------------------------------------------- pipeline: input space
\* Months of the dates a payload may carry, and the raw cells of its columns.
TimeCells == {1, 3}
TempCells == {NumCell(10000), StrCell(12015), NullCell, BadCell}
PrecipCells == {NumCell(1000), StrCell(2004), NullCell}

RawRows == [time : TimeCells, temperature_2m_mean : TempCells,
            precipitation_sum : PrecipCells]

RowSeqs == UNION {[1..n -> RawRows] : n \in 0..MaxDays}

Column(rows, col) == [i \in 1..Len(rows) |-> rows[i][col]]

\* The shapes of the daily container: all three columns, one column absent,
\* one column a cell short, or no daily container at all.
Shapes == {"aligned", "no_time", "no_temperature", "no_precipitation",
           "short_precipitation", "no_daily"}

Payload(rows, shape, units) ==
    Some([daily |->
            IF shape = "no_daily" THEN None
            ELSE Some([time |-> IF shape = "no_time" THEN None
                                ELSE Some(Column(rows, "time")),
                       temperature_2m_mean |->
                           IF shape = "no_temperature" THEN None
                           ELSE Some(Column(rows, "temperature_2m_mean")),
                       precipitation_sum |->
                           IF shape = "no_precipitation" THEN None
                           ELSE IF shape = "short_precipitation" /\ rows # <<>>
                           THEN Some(Tail(Column(rows, "precipitation_sum")))
                           ELSE Some(Column(rows, "precipitation_sum"))]),
          daily_units |-> units])

PipelineYear == 2023

PipeInit ==
    /\ CompassUnused
    /\ LimiterUnused
    /\ PoolUnused
    /\ \E rows \in RowSeqs, shape \in Shapes :
          api_data_json = Payload(rows, shape, NoUnits)
    /\ daily_df = None
    /\ monthly = None
    /\ pc = "start"
    /\ cache = <<>>
    /\ op = None
    /\ ret = None
    /\ events = <<>>
    /\ locals = None
    /\ computed = <<>>
    /\ nticks = 0
    /\ window_data = <<>>
    /\ monthly_averages = None

\* daily_df = _create_and_prepare_daily_dataframe(api_data_json)
Prepare ==
    /\ pc = "start"
    /\ daily_df' = create_and_prepare_daily_dataframe(api_data_json)
    /\ pc' = "prepared"
    /\ UNCHANGED <<api_data_json, monthly, cacheVars, avgVars, restVars>>

\* a caller handing the aggregator an empty table (tests.py, empty DataFrame)
EmptyTable ==
    /\ pc = "start"
    /\ daily_df' = Some(<<>>)
    /\ pc' = "prepared"
    /\ UNCHANGED <<api_data_json, monthly, cacheVars, avgVars, restVars>>

\* monthly = _aggregate_daily_data_to_monthly(daily_df, year)
Aggregate ==
    /\ pc = "prepared"
    /\ monthly' = Some(aggregate_daily_data_to_monthly(daily_df, PipelineYear))
    /\ pc' = "aggregated"
    /\ UNCHANGED <<api_data_json, daily_df, cacheVars, avgVars, restVars>>

PipeNext == Prepare \/ EmptyTable \/ Aggregate

SpecAgg == PipeInit /\ [][PipeNext]_vars

\* ------------------------------------------- pipeline: claims C1, C2, C3
\* The raw payload seen as rows (only when its three columns are aligned).
Numeric(cell) == cell[1] \in {"num", "numstr"}

RawDaily == Val(Val(api_data_json).daily)

RawAligned ==
    /\ NotNone(Val(api_data_json).daily)
    /\ NotNone(RawDaily.time)
    /\ NotNone(RawDaily.temperature_2m_mean)
    /\ NotNone(RawDaily.precipitation_sum)
    /\ Len(Val(RawDaily.time)) = Len(Val(RawDaily.temperature_2m_mean))
    /\ Len(Val(RawDaily.time)) = Len(Val(RawDaily.precipitation_sum))

RawTime(i) == Val(RawDaily.time)[i]
RawTemp(i) == Val(RawDaily.temperature_2m_mean)[i]
RawPrecip(i) == Val(RawDaily.precipitation_sum)[i]

\* the days of month m whose two metrics are both numbers
CompleteDays(m) ==
    {i \in 1..Len(Val(RawDaily.time)) :
        RawTime(i) = m /\ Numeric(RawTemp(i)) /\ Numeric(RawPrecip(i))}

RECURSIVE SumTemp(_)
SumTemp(S) ==
    IF S = {} THEN 0
    ELSE LET i == CHOOSE j \in S : TRUE IN RawTemp(i)[2] + SumTemp(S \ {i})

RECURSIVE SumPrecip(_)
SumPrecip(S) ==
    IF S = {} THEN 0
    ELSE LET i == CHOOSE j \in S : TRUE IN RawPrecip(i)[2] + SumPrecip(S \ {i})

TableGiven == NotNone(daily_df) /\ Val(daily_df) # <<>>
TableFromPayload == TableGiven /\ RawAligned

\* the months that hold at least one row of the table handed to the aggregator
MonthsWithRows == {Val(daily_df)[i].time : i \in 1..Len(Val(daily_df))}

\* C1 as stated: the aggregator returns twelve entries, months 1..12 in
\* increasing order, for every table, and twelve null/null entries for an
\* absent or empty table.
C1_AlwaysTwelve ==
    pc = "aggregated" =>
        /\ Len(Val(monthly)) = 12
        /\ \A m \in 1..Len(Val(monthly)) : Val(monthly)[m].month = m
        /\ ~TableGiven => Val(monthly) = AllNullMonths

\* C1 amended: for every table with at least one row the aggregator returns
\* exactly twelve entries whose month fields are 1, 2, ..., 12 in strictly
\* increasing order; for an absent or empty table it returns no entry at all.
C1_TwelveUnlessEmpty ==
    pc = "aggregated" =>
        IF TableGiven
        THEN /\ Len(Val(monthly)) = 12
             /\ \A m \in 1..12 : Val(monthly)[m].month = m
             /\ \A m \in 1..11 : Val(monthly)[m].month < Val(monthly)[m + 1].month
        ELSE Len(Val(monthly)) = 0

\* a table with rows in January and March only has been aggregated
C1_Witness ==
    /\ pc = "aggregated"
    /\ TableGiven
    /\ MonthsWithRows = {1, 3}
    /\ Len(Val(monthly)) = 12

\* C2 as stated: each month with a row carries the rounded mean temperature
\* and the rounded precipitation sum of its rows, and every month without a
\* row carries null/null.
C2_MeanSumElseNull ==
    (pc = "aggregated" /\ TableFromPayload) =>
        \A m \in Months :
            IF CompleteDays(m) # {}
            THEN /\ Val(monthly)[m].avg_temp =
                        Some(Round2(SumTemp(CompleteDays(m)), Cardinality(CompleteDays(m))))
                 /\ Val(monthly)[m].total_precip =
                        Some(Round2(SumPrecip(CompleteDays(m)), 1))
            ELSE /\ Val(monthly)[m].avg_temp = None
                 /\ Val(monthly)[m].total_precip = None

WEATHER_CACHE_DURATION == 86400

\* the years, the coordinates and the window lengths callers ask for
Years == 2021..2022
Latitudes == {515}
Longitudes == {-1}
EndYears == {2021, 2022}
NumYearsChoices == {1, 2}

AnnualKey(latitude, longitude, year) == <<"weather_data", latitude, longitude, year>>
RawKey(latitude, longitude, year) == <<"weather_raw", latitude, longitude, year>>
\* (a key that leaves out the first year of the window)
FiveYearKeyWithoutStart(latitude, longitude, start_year, end_year) ==
    <<"weather_5year", latitude, longitude, end_year, end_year>>

\* f"weather_5year_{latitude}_{longitude}_{start_year}_{end_year}"
FiveYearKey(latitude, longitude, start_year, end_year) ==
    <<"weather_5year", latitude, longitude, start_year, end_year>>

CacheKeys ==
    {AnnualKey(la, lo, y) : la \in Latitudes, lo \in Longitudes, y \in Years}
    \cup {RawKey(la, lo, y) : la \in Latitudes, lo \in Longitudes, y \in Years}
    \cup {FiveYearKey(la, lo, y1, y2) :
             la \in Latitudes, lo \in Longitudes, y1 \in Years, y2 \in EndYears}

\* cache.get(key): the value of a live entry, else None
CacheGet(c, key) == IF NotNone(c[key]) THEN Some(Val(c[key]).value) ELSE None

\* (a cache that stores nothing)
CacheSetForgotten(c, key, value, timeout) == c

\* cache.set(key, value, timeout)
CacheSet(c, key, value, timeout) ==
    [c EXCEPT ![key] = Some([value |-> value, ttl |-> timeout])]

\* the passing of d seconds: entries age, and an entry whose time-to-live is
\* used up is gone
CacheAfter(c, d) ==
    [k \in DOMAIN c |->
        IF NotNone(c[k]) /\ Val(c[k]).ttl > d
        THEN Some([value |-> Val(c[k]).value, ttl |-> Val(c[k]).ttl - d])
        ELSE None]

\* ---------------------------------------------------- the archive's answers
\* What one HTTP request to the archive comes back with: a transport error,
\* a non-success status or an undecodable body ("error"), or a JSON object.
ErrorResponse == [kind |-> "error", body |-> None]
JsonResponse(body) == [kind |-> "json", body |-> body]

Row(t, temp, precip) ==
    [time |-> t, temperature_2m_mean |-> temp, precipitation_sum |-> precip]

\* two January days (10.0, 12.0; 1.0, 2.0), units given
PayloadJanuary ==
    Payload(<<Row(1, NumCell(10000), NumCell(1000)),
              Row(1, NumCell(12000), NumCell(2000))>>,
            "aligned", Units(Some("degF"), Some("inch")))
\* a day in February and one in March whose temperature is missing; no units
PayloadSpring ==
    Payload(<<Row(2, StrCell(7015), NumCell(0)),
              Row(3, NullCell, NumCell(4000))>>,
            "aligned", NoUnits)
\* no usable row; units given in part
PayloadUnusable ==
    Payload(<<Row(1, NullCell, NumCell(1000))>>,
            "aligned", Units(Some("degF"), None))
\* a JSON object without the daily container
PayloadNoDaily == Payload(<<>>, "no_daily", NoUnits)

Responses ==
    {ErrorResponse, JsonResponse(PayloadNoDaily), JsonResponse(PayloadJanuary),
     JsonResponse(PayloadSpring), JsonResponse(PayloadUnusable)}

\* the other ways a request fails, and the bodies of an unexpected shape
Malformed(kind) == [kind |-> kind, body |-> None]
MalformedResponses ==
    {Malformed("http_status"), Malformed("invalid_json"),
     Malformed("json_not_object"), Malformed("json_daily_not_object"),
     Malformed("json_daily_empty"), Malformed("json_time_not_list")}

\* ------------------------------------------- _fetch_raw_annual_data_from_api
Ev(name, year) == <<name, year>>

\* What the request does with an answer that is no JSON object with a daily
\* container: the exception it raises, or "" if it raises none.
\*   error: requests.get fails (connection, timeout)   RequestException
\*   http_status: raise_for_status() on a 4xx/5xx      HTTPError, a RequestException
\*   invalid_json: response.json() cannot decode       JSONDecodeError, a ValueError
\*   json_not_object: the body is a list, a string, a number or null;
\*       api_data.get raises                            AttributeError
\*   json_daily_not_object: "daily" is a non-empty list or string;
\*       api_data["daily"].get raises                   AttributeError
\*   json_daily_empty ("daily" is {} or null), json_time_not_list: none
ExceptionOf(resp) ==
    CASE resp.kind = "error" -> "RequestException"
      [] resp.kind = "http_status" -> "RequestException"
      [] resp.kind = "invalid_json" -> "ValueError"
      [] resp.kind = "json_not_object" -> "AttributeError"
      [] resp.kind = "json_daily_not_object" -> "AttributeError"
      [] OTHER -> ""

\* the except clauses: requests.exceptions.RequestException, ValueError
fetch_caught(exception) == exception \in {"RequestException", "ValueError"}

\* "if not api_data.get('daily') or not isinstance(api_data['daily'].get('time'), list)"
lacks_daily_time(resp) ==
    \/ resp.kind \in {"json_daily_empty", "json_time_not_list"}
    \/ IsNone(Val(resp.body).daily)
    \/ IsNone(Val(Val(resp.body).daily).time)

fetch_raw_annual_data_from_api(c, latitude, longitude, year, resp) ==
    LET cache_key == RawKey(latitude, longitude, year)
        cached_data == CacheGet(c, cache_key)
    IN  IF NotNone(cached_data)
        THEN [ret |-> Val(cached_data), cache |-> c,
              events |-> <<Ev("limiter", year), Ev("raw_cache_hit", year)>>]
        ELSE IF ExceptionOf(resp) # ""
        THEN [ret |-> IF fetch_caught(ExceptionOf(resp)) THEN None
                      ELSE <<"raised", ExceptionOf(resp)>>,
              cache |-> c,
              events |-> <<Ev("limiter", year), Ev("http", year)>>]
        ELSE IF lacks_daily_time(resp)
        THEN [ret |-> None, cache |-> c,
              events |-> <<Ev("limiter", year), Ev("http", year)>>]
        ELSE [ret |-> resp.body,
              cache |-> CacheSet(c, cache_key, resp.body, WEATHER_CACHE_DURATION),
              events |-> <<Ev("limiter", year), Ev("http", year),
                           Ev("raw_cache_set", year)>>]

\* (units that are never read from the payload)
UnitAlwaysDefault(raw_api_data, metric, default) == default

\* raw_api_data.get("daily_units", {}).get(metric, default)
UnitOf(raw_api_data, metric, default) ==
    LET units == Val(raw_api_data).daily_units
    IN  IF NotNone(units) /\ NotNone(Val(units)[metric])
        THEN Val(Val(units)[metric]) ELSE default

\* ---------------------------------------- get_historical_annual_data_by_month
\* (a failure test that also gives up when no usable row is left)
fetch_failed_or_unusable(raw_api_data) ==
    IsNone(raw_api_data) \/ IsNone(create_and_prepare_daily_dataframe(raw_api_data))

\* "if not raw_api_data: return None"
fetch_failed(raw_api_data) == IsNone(raw_api_data)

\* lines 647-676: prepare, aggregate, read the units, cache and return
annual_from_payload(f, cache_key, year) ==
    With(create_and_prepare_daily_dataframe(f.ret), LAMBDA df :
    With(IF NotNone(df) THEN aggregate_daily_data_to_monthly(df, year) ELSE <<>>,
         LAMBDA monthly_aggregated_data :
    With([monthly_data |-> monthly_aggregated_data,
          temp_unit |-> UnitOf(f.ret, "temperature_2m_mean", DEFAULT_TEMP_UNIT),
          precip_unit |-> UnitOf(f.ret, "precipitation_sum", DEFAULT_PRECIP_UNIT)],
         LAMBDA result :
        [ret |-> Some(result),
         cache |-> CacheSet(f.cache, cache_key, result, WEATHER_CACHE_DURATION),
         missed |-> TRUE,
         events |-> <<Ev("cache_miss", year)>> \o f.events
                    \o <<Ev("prepare", year)>>
                    \o (IF NotNone(df) THEN <<Ev("aggregate", year)>> ELSE <<>>)
                    \o <<Ev("cache_set", year)>>,
         locals |-> Some([raw_api_data |-> f.ret, daily_df |-> df,
                          monthly_aggregated_data |-> monthly_aggregated_data])])))

get_historical_annual_data_by_month(c, latitude, longitude, year, resp) ==
    With(CacheGet(c, AnnualKey(latitude, longitude, year)), LAMBDA cached_data :
        IF NotNone(cached_data)
        THEN [ret |-> cached_data, cache |-> c, missed |-> FALSE,
              events |-> <<Ev("cache_hit", year)>>, locals |-> None]
        ELSE
        With(fetch_raw_annual_data_from_api(c, latitude, longitude, year, resp),
             LAMBDA f :
            IF fetch_failed(f.ret)
            THEN [ret |-> None, cache |-> f.cache, missed |-> TRUE,
                  events |-> <<Ev("cache_miss", year)>> \o f.events,
                  locals |-> Some([raw_api_data |-> f.ret, daily_df |-> None,
                                   monthly_aggregated_data |-> <<>>])]
            ELSE annual_from_payload(f, AnnualKey(latitude, longitude, year), year)))

\* ------------------------------------------------------- _get_data_for_month
\* the non-None values of one field over the entries of one month
ValuesOfMonth(all_monthly_data, month, field) ==
    LET hits == SelectSeq(all_monthly_data,
                    LAMBDA data : data.month = month /\ NotNone(data[field]))
    IN  [i \in 1..Len(hits) |-> Val(hits[i][field])]

\* (an average that counts every entry of the month, the None ones as 0)
mean_over_all_entries(vals, all_monthly_data, month) ==
    LET n == Len(SelectSeq(all_monthly_data, LAMBDA data : data.month = month))
    IN  IF vals = <<>> THEN None ELSE Some(Round2(SumSeq(vals), n))

\* round(sum(vals) / len(vals), 2) if vals else None
mean_or_none(vals, all_monthly_data, month) ==
    IF vals = <<>> THEN None ELSE Some(Round2(SumSeq(vals), Len(vals)))

get_data_for_month(all_monthly_data, month) ==
    LET temps == ValuesOfMonth(all_monthly_data, month, "avg_temp")
        precips == ValuesOfMonth(all_monthly_data, month, "total_precip")
    IN  [month |-> month,
         avg_temp |-> mean_or_none(temps, all_monthly_data, month),
         total_precip |-> mean_or_none(precips, all_monthly_data, month)]

\* -------------------------------------------- get_historical_5year_average_data
\* "if not year_data or not year_data.get('monthly_data'): continue"
SkipYear(year_data) == IsNone(year_data) \/ Val(year_data).monthly_data = <<>>

\* one pass of the loop body for an annual result a: the cache, the events
\* and the locals year_data, all_data, temp_unit, precip_unit after it
after_year(st, a, year) ==
    [cache |-> a.cache,
     events |-> st.events \o <<Ev("annual_call", year)>> \o a.events,
     year_data |-> Append(st.year_data, a.ret),
     missed |-> IF a.missed THEN st.missed \cup {year} ELSE st.missed,
     all_data |-> IF SkipYear(a.ret) THEN st.all_data
                  ELSE st.all_data \o Val(a.ret).monthly_data,
     temp_unit |-> IF ~SkipYear(a.ret) /\ st.temp_unit = DEFAULT_TEMP_UNIT
                   THEN Val(a.ret).temp_unit ELSE st.temp_unit,
     precip_unit |-> IF ~SkipYear(a.ret) /\ st.temp_unit = DEFAULT_TEMP_UNIT
                     THEN Val(a.ret).precip_unit ELSE st.precip_unit]

\* (a loop that gives up at the first year without data)
RECURSIVE collect_until_first_gap(_, _, _, _, _, _)
collect_until_first_gap(st, latitude, longitude, year, end_year, resps) ==
    IF year > end_year THEN st
    ELSE
        With(get_historical_annual_data_by_month(
                 st.cache, latitude, longitude, year, resps[year]), LAMBDA a :
        With(after_year(st, a, year), LAMBDA st1 :
            IF SkipYear(a.ret) THEN st1
            ELSE collect_until_first_gap(st1, latitude, longitude, year + 1,
                                         end_year, resps)))

\* the loop "for year in range(start_year, end_year + 1)"; st holds the cache
\* and the locals
RECURSIVE collect_years(_, _, _, _, _, _)
collect_years(st, latitude, longitude, year, end_year, resps) ==
    IF year > end_year THEN st
    ELSE
        With(get_historical_annual_data_by_month(
                 st.cache, latitude, longitude, year, resps[year]), LAMBDA a :
        With(after_year(st, a, year), LAMBDA st1 :
            collect_years(st1, latitude, longitude, year + 1, end_year, resps)))

\* (a check that never reports an empty collection)
never_empty(all_data) == FALSE

\* "if not all_data: return None"
no_data_collected(all_data) == all_data = <<>>

YearRange(start_year, end_year) == <<start_year, end_year>>

\* lines 593-612: None without data, else average, cache and return
five_year_from_collected(st, cache_key, start_year, end_year) ==
    With(Some([year_data |-> st.year_data, all_data |-> st.all_data,
               start_year |-> start_year]), LAMBDA lcl :
        IF no_data_collected(st.all_data)
        THEN [ret |-> None, cache |-> st.cache, missed |-> st.missed,
              year_rets |-> st.year_data, events |-> st.events, locals |-> lcl]
        ELSE
        With([monthly_data |-> [month \in Months |->
                                   get_data_for_month(st.all_data, month)],
              temp_unit |-> st.temp_unit,
              precip_unit |-> st.precip_unit,
              year_range |-> YearRange(start_year, end_year)], LAMBDA result :
            [ret |-> Some(result),
             cache |-> CacheSet(st.cache, cache_key, result,
                                WEATHER_CACHE_DURATION * 7),
             missed |-> st.missed, year_rets |-> st.year_data,
             events |-> st.events \o <<Ev("cache_set", 0)>>,
             locals |-> lcl]))

get_historical_5year_average_data(c, latitude, longitude, end_year, num_years, resps) ==
    With(end_year - num_years + 1, LAMBDA start_year :
    With(CacheGet(c, FiveYearKey(latitude, longitude, start_year, end_year)),
         LAMBDA cached_data :
        IF NotNone(cached_data)
        THEN [ret |-> cached_data, cache |-> c, missed |-> {}, year_rets |-> <<>>,
              events |-> <<Ev("cache_hit", 0)>>, locals |-> None]
        ELSE
        With(collect_years(
                 [cache |-> c, events |-> <<Ev("cache_miss", 0)>>,
                  year_data |-> <<>>, missed |-> {}, all_data |-> <<>>,
                  temp_unit |-> DEFAULT_TEMP_UNIT,
                  precip_unit |-> DEFAULT_PRECIP_UNIT],
                 latitude, longitude, start_year, end_year, resps), LAMBDA st :
            five_year_from_collected(
                st, FiveYearKey(latitude, longitude, start_year, end_year),
                start_year, end_year))))

\* ------------------------------------------------------------ the machine
\* The answers the archive may give to a call for one year: drawn only when
\* the call will issue the request (no live annual or raw entry for the year).
AnswersFor(c, latitude, longitude, year) ==
    IF \/ NotNone(CacheGet(c, AnnualKey(latitude, longitude, year)))
       \/ NotNone(CacheGet(c, RawKey(latitude, longitude, year)))
    THEN {ErrorResponse}
    ELSE Responses

Init ==
    /\ CompassUnused
    /\ LimiterUnused
    /\ PoolUnused
    /\ cache = [k \in CacheKeys |-> None]
    /\ op = None
    /\ ret = None
    /\ events = <<>>
    /\ locals = None
    /\ computed = [y \in Years |-> None]
    /\ nticks = 0
    /\ api_data_json = None
    /\ daily_df = None
    /\ monthly = None
    /\ pc = "start"
    /\ window_data = <<>>
    /\ monthly_averages = None

\* a caller calls get_historical_annual_data_by_month(latitude, longitude, year);
\* resp is what the archive answers if it is asked
GetAnnual ==
    \E latitude \in Latitudes, longitude \in Longitudes, year \in Years :
      \E resp \in AnswersFor(cache, latitude, longitude, year) :
        \E r \in {get_historical_annual_data_by_month(
                     cache, latitude, longitude, year, resp)} :
            /\ cache' = r.cache
            /\ op' = Some([name |-> "annual", year |-> year, end_year |-> year,
                           num_years |-> 1])
            /\ ret' = r.ret
            /\ events' = r.events
            /\ locals' = r.locals
            /\ computed' = IF r.missed
                           THEN [computed EXCEPT
                                   ![year] = Some([ret |-> r.ret, age |-> 0])]
                           ELSE computed
            /\ UNCHANGED <<nticks, pipeVars, avgVars, restVars>>

\* a caller calls get_historical_5year_average_data(latitude, longitude,
\* end_year, num_years); resps[y] is what the archive answers for year y
GetFiveYear ==
    \E latitude \in Latitudes, longitude \in Longitudes, end_year \in EndYears,
       num_years \in NumYearsChoices :
        /\ end_year - num_years + 1 \in Years
        /\ \E resps \in
              IF NotNone(CacheGet(cache, FiveYearKey(latitude, longitude,
                                      end_year - num_years + 1, end_year)))
              THEN {[y \in (end_year - num_years + 1)..end_year |-> ErrorResponse]}
              ELSE {f \in [(end_year - num_years + 1)..end_year -> Responses] :
                      \A y \in DOMAIN f :
                          f[y] \in AnswersFor(cache, latitude, longitude, y)} :
            \E r \in {get_historical_5year_average_data(
                         cache, latitude, longitude, end_year, num_years, resps)},
               start_year \in {end_year - num_years + 1} :
                /\ cache' = r.cache
                /\ op' = Some([name |-> "5year", year |-> start_year,
                               end_year |-> end_year, num_years |-> num_years])
                /\ ret' = r.ret
                /\ events' = r.events
                /\ locals' = r.locals
                /\ computed' =
                      [y \in Years |->
                          IF y \in r.missed
                          THEN Some([ret |-> r.year_rets[y - start_year + 1],
                                     age |-> 0])
                          ELSE computed[y]]
                /\ UNCHANGED <<nticks, pipeVars, avgVars, restVars>>

\* a caller hands _aggregate_daily_data_to_monthly no table or an empty one
\* (tests.py, test_aggregate_data_empty_df)
AggregateDirect ==
    \E df \in {None, Some(<<>>)}, year \in Years :
        /\ op' = Some([name |-> "aggregate", year |-> year, end_year |-> year,
                       num_years |-> 1])
        /\ ret' = None
        /\ events' = <<Ev("aggregate", year)>>
        /\ locals' = Some([raw_api_data |-> None, daily_df |-> df,
                           monthly_aggregated_data |->
                               aggregate_daily_data_to_monthly(df, year)])
        /\ UNCHANGED <<cache, computed, nticks, pipeVars, avgVars, restVars>>

\* time passes: half a day, or a week; the call that had returned is over
TickSteps == {WEATHER_CACHE_DURATION \div 2, WEATHER_CACHE_DURATION * 7}

Tick ==
    \E d \in TickSteps :
        /\ nticks < MaxTicks
        /\ nticks' = nticks + 1
        /\ cache' = CacheAfter(cache, d)
        /\ computed' =
              [y \in Years |->
                  IF IsNone(computed[y]) THEN None
                  ELSE Some([ret |-> Val(computed[y]).ret,
                             age |-> IF Val(computed[y]).age + d > WEATHER_CACHE_DURATION
                                     THEN WEATHER_CACHE_DURATION
                                     ELSE Val(computed[y]).age + d])]
        /\ op' = None
        /\ ret' = None
        /\ events' = <<>>
        /\ locals' = None
        /\ UNCHANGED <<pipeVars, avgVars, restVars>>

Next == GetAnnual \/ GetFiveYear \/ AggregateDirect \/ Tick

Spec == Init /\ [][Next]_vars

\* ---------------------------------------- the archive client called directly
\* the answers drawn for a direct call: only a call that issues the request
\* draws one
FetchAnswersFor(c, latitude, longitude, year) ==
    IF NotNone(CacheGet(c, RawKey(latitude, longitude, year)))
    THEN {ErrorResponse}
    ELSE Responses \cup MalformedResponses

\* a caller (tests.py) calls _fetch_raw_annual_data_from_api(latitude,
\* longitude, year); resp is what the archive answers if it is asked
FetchRaw ==
    \E latitude \in Latitudes, longitude \in Longitudes, year \in Years :
      \E resp \in FetchAnswersFor(cache, latitude, longitude, year) :
        \E r \in {fetch_raw_annual_data_from_api(
                     cache, latitude, longitude, year, resp)} :
            /\ cache' = r.cache
            /\ op' = Some([name |-> "fetch", year |-> year, end_year |-> year,
                           num_years |-> 1])
            /\ ret' = r.ret
            /\ events' = r.events
            /\ locals' = Some([resp |-> resp,
                               cached_data |->
                                   CacheGet(cache, RawKey(latitude, longitude, year))])
            /\ UNCHANGED <<computed, nticks, pipeVars, avgVars, restVars>>

FetchNext == FetchRaw \/ Tick

SpecFetch == Init /\ [][FetchNext]_vars

\* =====================================================================
\* The multi-year averaging as a function of the years' monthly data
\* =====================================================================
\* What a year that supplied data may hold for March: (avg_temp, total_precip)
MarchChoices ==
    {<<None, None>>, <<None, Some(0)>>, <<Some(10000), Some(1000)>>,
     <<Some(12000), Some(2000)>>, <<Some(11000), Some(3010)>>,
     <<Some(10010), Some(0)>>}

YearList(march) ==
    [m \in Months |->
        IF m = 3
        THEN [month |-> 3, avg_temp |-> march[1], total_precip |-> march[2]]
        ELSE IF m = 1
        THEN [month |-> 1, avg_temp |-> Some(5000), total_precip |-> Some(100)]
        ELSE NullMonth(m)]

\* a year's monthly_data: none (the year failed or had no usable row) or twelve
YearLists == {<<>>} \cup {YearList(c) : c \in MarchChoices}

RECURSIVE Concat(_)
Concat(lists) == IF lists = <<>> THEN <<>> ELSE Head(lists) \o Concat(Tail(lists))

AvgInit ==
    /\ CompassUnused
    /\ LimiterUnused
    /\ PoolUnused
    /\ window_data \in UNION {[1..n -> YearLists] : n \in 1..MaxWindow}
    /\ monthly_averages = None
    /\ api_data_json = None
    /\ daily_df = None
    /\ monthly = None
    /\ pc = "start"
    /\ cache = <<>>
    /\ op = None
    /\ ret = None
    /\ events = <<>>
    /\ locals = None
    /\ computed = <<>>
    /\ nticks = 0

\* monthly_averages = [_get_data_for_month(all_data, month) for month in 1..12]
\* over the all_data collected from the years that supplied data
ComputeAverages ==
    /\ monthly_averages = None
    /\ ~no_data_collected(Concat(window_data))
    /\ monthly_averages' =
          Some([month \in Months |-> get_data_for_month(Concat(window_data), month)])
    /\ UNCHANGED <<window_data, pipeVars, cacheVars, restVars>>

AvgNext == ComputeAverages

SpecAvg == AvgInit /\ [][AvgNext]_vars

\* =====================================================================
\* Claims C4 .. C10
\* =====================================================================
OpIs(name) == NotNone(op) /\ Val(op).name = name

\* the last call was get_historical_annual_data_by_month and missed the cache
AnnualMiss == OpIs("annual") /\ events[1] = Ev("cache_miss", Val(op).year)

\* ... and its fetch returned a payload that left no usable row
AnnualUnusable ==
    /\ AnnualMiss
    /\ NotNone(Val(locals).raw_api_data)
    /\ IsNone(Val(locals).daily_df)

\* the unit a payload states for a metric, the default when it states none
StatedUnit(payload, metric, default) ==
    IF IsNone(Val(payload).daily_units) THEN default
    ELSE IF IsNone(Val(Val(payload).daily_units)[metric]) THEN default
    ELSE Val(Val(Val(payload).daily_units)[metric])

UnitsOfPayload(result, payload) ==
    /\ result.temp_unit = StatedUnit(payload, "temperature_2m_mean", DEFAULT_TEMP_UNIT)
    /\ result.precip_unit = StatedUnit(payload, "precipitation_sum", DEFAULT_PRECIP_UNIT)

\* C4 as stated: when the fetch succeeds and preparation leaves no usable
\* row, the annual call returns a result whose monthly_data is the twelve
\* null/null entries and whose units are the payload's.
C4_TwelveNullsWithUnits ==
    AnnualUnusable =>
        /\ NotNone(ret)
        /\ Val(ret).monthly_data = AllNullMonths
        /\ UnitsOfPayload(Val(ret), Val(locals).raw_api_data)

\* C4 amended: when the fetch succeeds and preparation leaves no usable row,
\* the annual call returns a non-failure result whose monthly_data is the
\* empty list and whose temp_unit / precip_unit are those of the payload's
\* daily_units (the defaults where daily_units states none).
C4_EmptyListWithUnits ==
    AnnualUnusable =>
        /\ NotNone(ret)
        /\ Len(Val(ret).monthly_data) = 0
        /\ UnitsOfPayload(Val(ret), Val(locals).raw_api_data)

\* the archive answered with rows that are all unusable and with a
\* temperature unit but no precipitation unit
C4_Witness ==
    /\ AnnualUnusable
    /\ Val(locals).raw_api_data = PayloadUnusable
    /\ Val(ret).temp_unit = "degF"
    /\ Val(ret).precip_unit = DEFAULT_PRECIP_UNIT

\* C5: the aggregator returns the empty list for an empty (or absent) table,
\* and the annual call returns a dictionary whose monthly_data is the empty
\* list, with the payload's units, whenever preparation of a fetched payload
\* returns None.
C5_EmptyList ==
    /\ (OpIs("aggregate") /\ (IsNone(Val(locals).daily_df)
                               \/ Val(Val(locals).daily_df) = <<>>))
          => Val(locals).monthly_aggregated_data = <<>>
    /\ AnnualUnusable =>
          /\ Val(locals).monthly_aggregated_data = <<>>
          /\ ret = Some([monthly_data |-> <<>>,
                         temp_unit |-> StatedUnit(Val(locals).raw_api_data,
                                           "temperature_2m_mean", DEFAULT_TEMP_UNIT),
                         precip_unit |-> StatedUnit(Val(locals).raw_api_data,
                                             "precipitation_sum", DEFAULT_PRECIP_UNIT)])
          /\ ~(\E i \in 1..Len(events) : events[i][1] = "aggregate")

\* the aggregator has been handed an empty table
C5_Witness ==
    /\ OpIs("aggregate")
    /\ Val(locals).daily_df = Some(<<>>)
    /\ Val(locals).monthly_aggregated_data = <<>>

\* the fetch of the last annual call failed: it issued its request and got
\* no payload to store
FetchFailed ==
    events = <<Ev("cache_miss", Val(op).year), Ev("limiter", Val(op).year),
               Ev("http", Val(op).year)>>

AnnualCallOf(y) == op' = Some([name |-> "annual", year |-> y, end_year |-> y,
                               num_years |-> 1])

\* the last annual call for year y that went past the cache returned less
\* than the cache TTL ago
CalledWithinTTL(y) ==
    /\ NotNone(computed[y])
    /\ Val(computed[y]).age < WEATHER_CACHE_DURATION

\* C7 as stated: for any (lat, lon, year), a call within the cache TTL of an
\* earlier call returns the identical result, from the cache, with no network
\* request, fetch, preparation or aggregation.
C7_SecondCallIdentical ==
    [][\A y \in Years :
          (AnnualCallOf(y) /\ CalledWithinTTL(y)) =>
              /\ ret' = Val(computed[y]).ret
              /\ events' = <<Ev("cache_hit", y)>>]_vars

\* C7 amended: for any (lat, lon, year), once a call has returned a result
\* (not the failure sentinel None), a call within the cache TTL of it returns
\* the identical result, served from the (lat, lon, year) cache entry with no
\* network request and no fetch, preparation or aggregation; a failed call
\* caches nothing, so the call after it fetches again.
C7_SecondCallIdenticalAfterResult ==
    [][\A y \in Years :
          (AnnualCallOf(y) /\ CalledWithinTTL(y) /\ NotNone(Val(computed[y]).ret)) =>
              /\ ret' = Val(computed[y]).ret
              /\ events' = <<Ev("cache_hit", y)>>]_vars

\* half a day after a call that fetched a result, the same call has been
\* answered from the cache with the same result
C7_Witness ==
    /\ OpIs("annual")
    /\ events = <<Ev("cache_hit", Val(op).year)>>
    /\ NotNone(computed[Val(op).year])
    /\ Val(computed[Val(op).year]).age > 0
    /\ Val(computed[Val(op).year]).age < WEATHER_CACHE_DURATION
    /\ NotNone(ret)
    /\ ret = Val(computed[Val(op).year]).ret

\* ---------------------------------------------------------------- C8
\* lists: per year of a window, the year's monthly_data (<<>> if it has none).
\* The years that hold a value of the field for month m.
Contributing(lists, m, field) ==
    {i \in 1..Len(lists) : lists[i] # <<>> /\ NotNone(lists[i][m][field])}

RECURSIVE SumField(_, _, _, _)
SumField(S, lists, m, field) ==
    IF S = {} THEN 0
    ELSE LET i == CHOOSE j \in S : TRUE
         IN  Val(lists[i][m][field]) + SumField(S \ {i}, lists, m, field)

\* r is the exact mean of the contributing years' values (None if there is none)
ExactMean(r, lists, m, field) ==
    LET S == Contributing(lists, m, field)
    IN  IF S = {} THEN r = None
        ELSE NotNone(r) /\ Val(r) * Cardinality(S) = SumField(S, lists, m, field)

\* r is that mean rounded to 2 decimals: a multiple of 0.01 at most 0.005 away
RoundedMean(r, lists, m, field) ==
    LET S == Contributing(lists, m, field)
    IN  IF S = {} THEN r = None
        ELSE /\ NotNone(r)
             /\ Val(r) % 10 = 0
             /\ 2 * Abs(Val(r) * Cardinality(S) - SumField(S, lists, m, field))
                   <= 10 * Cardinality(S)

\* C8 as stated: for each month the multi-year avg_temp equals the mean of
\* the avg_temp values of the years whose value is non-null, total_precip
\* likewise and independently; null when no year contributes.
C8_ExactMeanOfNonNull ==
    NotNone(monthly_averages) =>
        \A m \in Months :
            /\ ExactMean(Val(monthly_averages)[m].avg_temp, window_data, m, "avg_temp")
            /\ ExactMean(Val(monthly_averages)[m].total_precip, window_data, m,
                         "total_precip")

\* C8 amended: for each month m the multi-year avg_temp equals the mean,
\* rounded to 2 decimal places, of the avg_temp values of m over exactly the
\* years of the window whose value for m is non-null, and total_precip
\* likewise (independently of avg_temp) over the years whose total_precip for
\* m is non-null; a month with no contributing year yields null for that metric.
C8_RoundedMeanOfNonNull ==
    NotNone(monthly_averages) =>
        /\ Len(Val(monthly_averages)) = 12
        /\ \A m \in Months :
              /\ Val(monthly_averages)[m].month = m
              /\ RoundedMean(Val(monthly_averages)[m].avg_temp, window_data, m,
                             "avg_temp")
              /\ RoundedMean(Val(monthly_averages)[m].total_precip, window_data, m,
                             "total_precip")

\* March holds 10.0, 12.0, null, 11.0, null over five years and averages 11.0
C8_Witness ==
    /\ NotNone(monthly_averages)
    /\ Len(window_data) = 5
    /\ \A i \in 1..5 : window_data[i] # <<>>
    /\ window_data[1][3].avg_temp = Some(10000)
    /\ window_data[2][3].avg_temp = Some(12000)
    /\ window_data[3][3].avg_temp = None
    /\ window_data[4][3].avg_temp = Some(11000)
    /\ window_data[5][3].avg_temp = None
    /\ Val(monthly_averages)[3].avg_temp = Some(11000)

\* ----------------------------------------------------------- C9, C10
\* the last call was get_historical_5year_average_data and missed the cache
FiveYearMiss == OpIs("5year") /\ NotNone(locals)

WindowYears == Val(op).year .. Val(op).end_year

\* the monthly_data each year of the window supplied to the last call
Supplied ==
    [i \in 1..Len(Val(locals).year_data) |->
        IF NotNone(Val(locals).year_data[i])
        THEN Val(Val(locals).year_data[i]).monthly_data ELSE <<>>]

\* the years for which the last call invoked the annual function, in order
Invoked ==
    LET calls == SelectSeq(events, LAMBDA e : e[1] = "annual_call")
    IN  [i \in 1..Len(calls) |-> calls[i][2]]

FetchedYears ==
    {i \in 1..Len(Val(locals).year_data) : NotNone(Val(locals).year_data[i])}

FirstFetched == CHOOSE i \in FetchedYears : \A j \in FetchedYears : i <= j

\* C11 as stated: the temp_unit and the precip_unit of a multi-year result are
\* both those of the earliest year of the window whose fetch succeeded,
\* whatever units the later years report.
C11_UnitsOfFirstSuccessfulYear ==
    (FiveYearMiss /\ NotNone(ret)) =>
        /\ Val(ret).temp_unit = Val(Val(locals).year_data[FirstFetched]).temp_unit
        /\ Val(ret).precip_unit = Val(Val(locals).year_data[FirstFetched]).precip_unit

\* =====================================================================
\* The compass labels of views.py
\* =====================================================================
directions ==
    <<"N", "NNE", "NE", "ENE", "E", "ESE", "SE", "SSE",
      "S", "SSW", "SW", "WSW", "W", "WNW", "NW", "NNW">>

\* (a converter that cuts the quotient off instead of rounding it)
wind_direction_text_truncated(deg) ==
    IF IsNone(deg) THEN "N/A"
    ELSE directions[(((2 * (Val(deg) % 360)) \div 45) % 16) + 1]

\* _get_wind_direction_text for whole degrees: degrees / 22.5 is 2 * degrees / 45,
\* and round() goes to the nearest integer, a tie to the even one
get_wind_direction_text(deg) ==
    IF IsNone(deg) THEN "N/A"
    ELSE directions[(RoundHalfEven(2 * (Val(deg) % 360), 45) % 16) + 1]

\* the directions callers hand in: none, or whole degrees, also below 0 and
\* above 360
DegreeInputs == {None} \cup {Some(d) : d \in (0 - MaxDegrees)..MaxDegrees}

CompassInit ==
    /\ degrees \in DegreeInputs
    /\ direction = None
    /\ LimiterUnused
    /\ PoolUnused
    /\ api_data_json = None
    /\ daily_df = None
    /\ monthly = None
    /\ pc = "start"
    /\ cache = <<>>
    /\ op = None
    /\ ret = None
    /\ events = <<>>
    /\ locals = None
    /\ computed = <<>>
    /\ nticks = 0
    /\ window_data = <<>>
    /\ monthly_averages = None

\* direction = _get_wind_direction_text(degrees)
ConvertDirection ==
    /\ direction = None
    /\ direction' = Some(get_wind_direction_text(degrees))
    /\ UNCHANGED <<degrees, limiterVars, poolVars, pipeVars, cacheVars, avgVars>>

CompassNext == ConvertDirection

SpecCompass == CompassInit /\ [][CompassNext]_vars

\* ---------------------------------------------------------------- C12
\* the direction normalised to [0, 360)
Normalized == Val(degrees) % 360

\* k is the integer nearest to Normalized / 22.5 = 2 * Normalized / 45: it is
\* less than one half away (no whole degree falls exactly on a half)
NearestBucket(k) == 2 * Abs(2 * Normalized - 45 * k) < 45

\* the label is the entry of the 16-point list, counted from N, at the
\* position (nearest integer to Normalized / 22.5) mod 16
LabelByFormula ==
    \E k \in 0..16 :
        /\ NearestBucket(k)
        /\ Val(direction) = directions[(k % 16) + 1]

\* C12 as stated: every whole degree maps to the label at index
\* round((deg mod 360) / 22.5) mod 16; 0 maps to N, 359 to N, 45 to NE and
\* 190 to SSW.
C12_CompassWithSSW ==
    (NotNone(direction) /\ NotNone(degrees)) =>
        /\ LabelByFormula
        /\ Val(degrees) = 0 => Val(direction) = "N"
        /\ Val(degrees) = 359 => Val(direction) = "N"
        /\ Val(degrees) = 45 => Val(direction) = "NE"
        /\ Val(degrees) = 190 => Val(direction) = "SSW"

\* C12 amended: every whole degree maps to the label at index
\* round((deg mod 360) / 22.5) mod 16 of the 16-point list starting at N;
\* 0 maps to N, 359 to N, 45 to NE and 190 to S (190 / 22.5 is 8.44, which
\* rounds to 8; SSW is index 9, reached from 192 to 213 degrees).
C12_CompassBuckets ==
    (NotNone(direction) /\ NotNone(degrees)) =>
        /\ LabelByFormula
        /\ Val(degrees) = 0 => Val(direction) = "N"
        /\ Val(degrees) = 359 => Val(direction) = "N"
        /\ Val(degrees) = 45 => Val(direction) = "NE"
        /\ Val(degrees) = 190 => Val(direction) = "S"
        /\ Val(direction) = "SSW" <=> Normalized \in 192..213

\* 190 degrees has been converted
C12_Witness ==
    /\ degrees = Some(190)
    /\ direction = Some("S")

\* =====================================================================
\* The rate limiter, called by the workers of the thread pool
\* =====================================================================
NOMINATIM_CALLS_LIMIT == 1
NOMINATIM_TIME_PERIOD == 1
OPEN_METEO_CALLS_LIMIT == 10
OPEN_METEO_TIME_PERIOD == 60

\* ThreadPoolExecutor(max_workers=3)
MAX_WORKERS == 3
Threads == 1..MAX_WORKERS

\* RateLimiter.__init__
RateLimiter(calls_limit, time_period) ==
    [calls_limit |-> calls_limit, time_period |-> time_period]

\* the instances within the bounds; RateLimiter(NOMINATIM_CALLS_LIMIT,
\* NOMINATIM_TIME_PERIOD) is one of them
LimiterInstances ==
    {RateLimiter(l, p) : l \in NOMINATIM_CALLS_LIMIT..MaxLimit,
                         p \in NOMINATIM_TIME_PERIOD..MaxPeriod}

\* a thread outside wait_if_needed
IdleThread ==
    [pc |-> "idle", now |-> 0, kept |-> <<>>, full |-> FALSE,
     oldest_timestamp |-> 0, wake |-> 0]

\* (a pruning that keeps every timestamp)
prune_nothing(timestamps, now, time_period) == timestamps

\* [ts for ts in self.calls_timestamps if now - ts < timedelta(seconds=time_period)]
prune(timestamps, now, time_period) ==
    SelectSeq(timestamps, LAMBDA ts : now - ts < time_period)

\* min(self.calls_timestamps)
MinOf(timestamps) ==
    CHOOSE ts \in {timestamps[i] : i \in 1..Len(timestamps)} :
        \A i \in 1..Len(timestamps) : ts <= timestamps[i]

\* (a limiter that never waits)
wait_time_none(oldest_timestamp, time_period, now) == 0

\* (oldest_timestamp + timedelta(seconds=self.time_period) - now).total_seconds()
wait_time(oldest_timestamp, time_period, now) ==
    oldest_timestamp + time_period - now

\* the calls that have entered wait_if_needed so far
CallsStarted ==
    Len(admitted) + Cardinality({t \in Threads : threads[t].pc # "idle"})

LimiterInit ==
    /\ limiter \in LimiterInstances
    /\ calls_timestamps = <<>>
    /\ clock = 0
    /\ threads = [t \in Threads |-> IdleThread]
    /\ admitted = <<>>
    /\ CompassUnused
    /\ PoolUnused
    /\ api_data_json = None
    /\ daily_df = None
    /\ monthly = None
    /\ pc = "start"
    /\ cache = <<>>
    /\ op = None
    /\ ret = None
    /\ events = <<>>
    /\ locals = None
    /\ computed = <<>>
    /\ nticks = 0
    /\ window_data = <<>>
    /\ monthly_averages = None

LimiterRest == <<compassVars, poolVars, pipeVars, cacheVars, avgVars>>

\* thread t enters wait_if_needed: it reads the clock and builds the list of
\* the timestamps that are still inside the window
EnterWait(t) ==
    /\ threads[t].pc = "idle"
    /\ CallsStarted < MaxCalls
    /\ threads' = [threads EXCEPT ![t] =
                      [IdleThread EXCEPT
                          !.pc = "store", !.now = clock,
                          !.kept = prune(calls_timestamps, clock, limiter.time_period)]]
    /\ UNCHANGED <<limiter, calls_timestamps, clock, admitted, LimiterRest>>

\* self.calls_timestamps = <the list built>
StorePruned(t) ==
    /\ threads[t].pc = "store"
    /\ calls_timestamps' = threads[t].kept
    /\ threads' = [threads EXCEPT ![t].pc = "check", ![t].kept = <<>>]
    /\ UNCHANGED <<limiter, clock, admitted, LimiterRest>>

\* "if len(self.calls_timestamps) >= self.calls_limit": compute the wait and
\* go to sleep if it is positive
CheckLimit(t) ==
    /\ threads[t].pc = "check"
    /\ IF Len(calls_timestamps) >= limiter.calls_limit
       THEN \E oldest_timestamp \in {MinOf(calls_timestamps)} :
            \E w \in {wait_time(oldest_timestamp, limiter.time_period,
                                threads[t].now)} :
                threads' = [threads EXCEPT
                    ![t].full = TRUE,
                    ![t].oldest_timestamp = oldest_timestamp,
                    ![t].pc = IF w > 0 THEN "sleep" ELSE "append",
                    ![t].wake = IF w > 0 THEN clock + w ELSE 0]
       ELSE threads' = [threads EXCEPT ![t].pc = "append"]
    /\ UNCHANGED <<limiter, calls_timestamps, clock, admitted, LimiterRest>>

\* time.sleep(wait_time) returns: not before the time asked for has passed
WakeUp(t) ==
    /\ threads[t].pc = "sleep"
    /\ clock >= threads[t].wake
    /\ threads' = [threads EXCEPT ![t].pc = "append"]
    /\ UNCHANGED <<limiter, calls_timestamps, clock, admitted, LimiterRest>>

\* self.calls_timestamps.append(datetime.now()); the call returns
AppendTimestamp(t) ==
    /\ threads[t].pc = "append"
    /\ calls_timestamps' = Append(calls_timestamps, clock)
    /\ admitted' = Append(admitted,
                      [thread |-> t, at |-> clock, full |-> threads[t].full,
                       oldest_timestamp |-> threads[t].oldest_timestamp])
    /\ threads' = [threads EXCEPT ![t] = IdleThread]
    /\ UNCHANGED <<limiter, clock, LimiterRest>>

\* one time unit passes
AdvanceClock ==
    /\ clock < MaxClock
    /\ clock' = clock + 1
    /\ UNCHANGED <<limiter, calls_timestamps, threads, admitted, LimiterRest>>

LimiterNext ==
    \/ \E t \in Threads : EnterWait(t)
    \/ \E t \in Threads : StorePruned(t)
    \/ \E t \in Threads : CheckLimit(t)
    \/ \E t \in Threads : WakeUp(t)
    \/ \E t \in Threads : AppendTimestamp(t)
    \/ AdvanceClock

SpecLimiter == LimiterInit /\ [][LimiterNext]_vars

\* ---------------------------------------------------------------- C13
\* the threads that have called wait_if_needed
Callers ==
    {admitted[i].thread : i \in 1..Len(admitted)}
    \cup {t \in Threads : threads[t].pc # "idle"}

SingleCaller == Cardinality(Callers) <= 1

\* C13: with a single caller, a call that finds calls_limit calls admitted
\* within one time_period is not admitted before oldest_timestamp +
\* time_period, the moment the oldest logged timestamp leaves the window; so
\* any calls_limit + 1 consecutive admissions span at least one time_period.
C13_BlocksUntilOldestAges ==
    SingleCaller =>
        /\ \A i \in 1..Len(admitted) :
              admitted[i].full =>
                  admitted[i].at >= admitted[i].oldest_timestamp + limiter.time_period
        /\ \A i \in 1..Len(admitted) :
              i > limiter.calls_limit =>
                  admitted[i].at >=
                      admitted[i - limiter.calls_limit].at + limiter.time_period

\* one thread: calls_limit calls admitted at time 0, the next one found the
\* log full and was admitted one time_period later
C13_Witness ==
    /\ SingleCaller
    /\ limiter = RateLimiter(MaxLimit, MaxPeriod)
    /\ Len(admitted) = limiter.calls_limit + 1
    /\ \A i \in 1..limiter.calls_limit : admitted[i].at = 0 /\ ~admitted[i].full
    /\ admitted[Len(admitted)].full
    /\ admitted[Len(admitted)].oldest_timestamp = 0
    /\ admitted[Len(admitted)].at = limiter.time_period

\* ---------------------------------------------------------------- C14
\* the calls admitted in the window of length time_period that starts at a
AdmittedInWindow(a) ==
    {i \in 1..Len(admitted) :
        admitted[i].at >= a /\ admitted[i].at < a + limiter.time_period}

Occurrences(timestamps, ts) ==
    Cardinality({i \in 1..Len(timestamps) : timestamps[i] = ts})

\* C14 as stated: for every interleaving of up to 3 threads on one limiter,
\* no rolling window of length time_period holds more than calls_limit
\* admitted calls, and no admitted call's timestamp is missing from the
\* shared log while it is still inside the window.
C14_SafeUnderWorkerPool ==
    /\ \A i \in 1..Len(admitted) :
          Cardinality(AdmittedInWindow(admitted[i].at)) <= limiter.calls_limit
    /\ \A i \in 1..Len(admitted) :
          clock - admitted[i].at < limiter.time_period =>
              Occurrences(calls_timestamps, admitted[i].at)
                  >= Cardinality({j \in 1..Len(admitted) :
                                     admitted[j].at = admitted[i].at})

\* =====================================================================
\* The geocoding client
\* =====================================================================
GEOCODING_CACHE_DURATION == 7 * 86400

\* geolocator.geocode(city_name, timeout=10)
GEOCODE_TIMEOUT == 10

\* City names are strings over a letter in both cases and the space, and one
\* name with an underscore.
NameChars == {"l", "L", " "}
CityNames ==
    UNION {[1..n -> NameChars] : n \in 0..MaxNameLen}
    \cup {<<"l", " ", "l">>, <<"L", " ", "L">>, <<"l", "_", "l">>}

\* str.lower()
lower(str) == [i \in 1..Len(str) |-> IF str[i] = "L" THEN "l" ELSE str[i]]

\* (a strip that removes nothing)
strip_nothing(str) == str

\* str.strip(): without the leading and the trailing whitespace
RECURSIVE strip(_)
strip(str) ==
    IF str = <<>> THEN str
    ELSE IF Head(str) = " " THEN strip(Tail(str))
    ELSE IF str[Len(str)] = " " THEN strip(SubSeq(str, 1, Len(str) - 1))
    ELSE str

\* str.replace(' ', '_')
replace_spaces(str) == [i \in 1..Len(str) |-> IF str[i] = " " THEN "_" ELSE str[i]]

\* f"geocode_{city_name.lower().strip().replace(' ', '_')}"
geocode_cache_key(city_name) == <<"geocode", replace_spaces(strip(lower(city_name)))>>

GeoKeys == {geocode_cache_key(n) : n \in CityNames}

\* What the geocoding service does with one request: it finds a location,
\* finds none, or the request raises.
LondonLocation == [latitude |-> 515074, longitude |-> -1278, address |-> "London, UK"]

GeoAnswer(kind, location) == [kind |-> kind, location |-> location]
GeoAnswers ==
    {GeoAnswer("location", Some(LondonLocation)),
     GeoAnswer("no_match", None),
     GeoAnswer("GeocoderTimedOut", None),
     GeoAnswer("GeocoderUnavailable", None),
     GeoAnswer("Exception", None)}

GeoEv(name, city_name, n) == <<name, city_name, n>>

\* an exception that leaves a function
Raised(exception) == <<"raised", exception>>

\* (handlers for the two geopy exceptions only)
caught_geopy_only(exception) ==
    exception \in {"GeocoderTimedOut", "GeocoderUnavailable"}

\* the except clauses: GeocoderTimedOut, GeocoderUnavailable, Exception
caught(exception) ==
    exception \in {"GeocoderTimedOut", "GeocoderUnavailable", "Exception"}

\* lines 145-179: the rate limiter, one request, and what becomes of its answer
geocode_on_miss(c, city_name, cache_key, answer) ==
    With(<<GeoEv("limiter", city_name, 0),
           GeoEv("geocode", city_name, GEOCODE_TIMEOUT)>>, LAMBDA evs :
        IF answer.kind = "location"
        THEN With([latitude |-> Val(answer.location).latitude,
                   longitude |-> Val(answer.location).longitude,
                   address |-> Val(answer.location).address], LAMBDA result :
                 [ret |-> Some(result),
                  cache |-> CacheSet(c, cache_key, result, GEOCODING_CACHE_DURATION),
                  events |-> evs \o <<GeoEv("cache_set", cache_key[2],
                                            GEOCODING_CACHE_DURATION)>>])
        ELSE IF answer.kind = "no_match"
        THEN [ret |-> None, cache |-> c, events |-> evs]
        ELSE IF caught(answer.kind)
        THEN [ret |-> None, cache |-> c, events |-> evs]
        ELSE [ret |-> Raised(answer.kind), cache |-> c, events |-> evs])

\* get_coordinates_for_city; answer is what the service does if it is asked
get_coordinates_for_city(c, city_name, answer) ==
    IF city_name = <<>>
    THEN [ret |-> None, cache |-> c, events |-> <<>>,
          locals |-> Some([cache_key |-> None, cached_coords |-> None])]
    ELSE
    With(geocode_cache_key(city_name), LAMBDA cache_key :
    With(CacheGet(c, cache_key), LAMBDA cached_coords :
        IF NotNone(cached_coords)
        THEN [ret |-> cached_coords, cache |-> c, events |-> <<>>,
              locals |-> Some([cache_key |-> Some(cache_key),
                               cached_coords |-> cached_coords])]
        ELSE With(geocode_on_miss(c, city_name, cache_key, answer), LAMBDA g :
                 [ret |-> g.ret, cache |-> g.cache, events |-> g.events,
                  locals |-> Some([cache_key |-> Some(cache_key),
                                   cached_coords |-> cached_coords])])))

\* the answers drawn for a call: only a call that asks the service draws one
GeoAnswersFor(c, city_name) ==
    IF city_name = <<>> \/ NotNone(CacheGet(c, geocode_cache_key(city_name)))
    THEN {GeoAnswer("no_match", None)}
    ELSE GeoAnswers

GeoInit ==
    /\ cache = [k \in GeoKeys |-> None]
    /\ op = None
    /\ ret = None
    /\ events = <<>>
    /\ locals = None
    /\ computed = <<>>
    /\ nticks = 0
    /\ CompassUnused
    /\ LimiterUnused
    /\ PoolUnused
    /\ api_data_json = None
    /\ daily_df = None
    /\ monthly = None
    /\ pc = "start"
    /\ window_data = <<>>
    /\ monthly_averages = None

\* a caller calls get_coordinates_for_city(city_name)
GetCoordinates ==
    \E city_name \in CityNames :
      \E answer \in GeoAnswersFor(cache, city_name) :
        \E r \in {get_coordinates_for_city(cache, city_name, answer)} :
            /\ cache' = r.cache
            /\ op' = Some([name |-> "geocode", city_name |-> city_name,
                           answer |-> answer])
            /\ ret' = r.ret
            /\ events' = r.events
            /\ locals' = r.locals
            /\ UNCHANGED <<computed, nticks, pipeVars, avgVars, restVars>>

\* time passes: half the life of a geocoding entry; the call that had
\* returned is over
GeoTick ==
    /\ nticks < MaxTicks
    /\ nticks' = nticks + 1
    /\ cache' = CacheAfter(cache, GEOCODING_CACHE_DURATION \div 2)
    /\ op' = None
    /\ ret' = None
    /\ events' = <<>>
    /\ locals' = None
    /\ UNCHANGED <<computed, pipeVars, avgVars, restVars>>

GeoNext == GetCoordinates \/ GeoTick

SpecGeo == GeoInit /\ [][GeoNext]_vars

\* ---------------------------------------------------------------- C15
\* the name is empty or holds nothing but whitespace
Blank(str) == \A i \in 1..Len(str) : str[i] = " "

\* C15 as stated: for every city name that is empty or only whitespace the
\* call returns None without consulting the rate limiter and without issuing
\* a geocoding request.
C15_BlankNameNoRequest ==
    (OpIs("geocode") /\ Blank(Val(op).city_name)) =>
        /\ IsNone(ret)
        /\ \A i \in 1..Len(events) : events[i][1] \notin {"limiter", "geocode"}

\* ---------------------------------------------------------------- C16
\* this step is a call of get_coordinates_for_city with the name n
GeoCallOf(n) == NotNone(op') /\ Val(op').name = "geocode" /\ Val(op').city_name = n

NonSpaces(str) == {i \in 1..Len(str) : str[i] # " "}

\* the name between its first and its last character that is not a space
Core(str) ==
    IF NonSpaces(str) = {} THEN <<>>
    ELSE SubSeq(str,
                CHOOSE i \in NonSpaces(str) : \A j \in NonSpaces(str) : i <= j,
                CHOOSE i \in NonSpaces(str) : \A j \in NonSpaces(str) : i >= j)

FoldCase(ch) == IF ch = "L" THEN "l" ELSE ch

\* the two names differ at most in letter case and in leading or trailing
\* whitespace
SameCity(a, b) ==
    /\ Len(Core(a)) = Len(Core(b))
    /\ \A i \in 1..Len(Core(a)) : FoldCase(Core(a)[i]) = FoldCase(Core(b)[i])

\* C16: names that differ only in letter case or outer whitespace share one
\* cache key; a call whose key holds coordinates returns them without the
\* rate limiter and without a geocoding request; a miss followed by a
\* successful geocode stores the result under that key for 7 days.
C16_HitSkipsLimiterMissStores ==
    [][\A n \in CityNames \ {<<>>} :
          GeoCallOf(n) =>
              /\ \A m \in CityNames \ {<<>>} :
                    SameCity(n, m) => geocode_cache_key(m) = geocode_cache_key(n)
              /\ NotNone(cache[geocode_cache_key(n)]) =>
                    /\ ret' = Some(Val(cache[geocode_cache_key(n)]).value)
                    /\ events' = <<>>
                    /\ cache' = cache
              /\ (IsNone(cache[geocode_cache_key(n)])
                      /\ Val(op').answer.kind = "location") =>
                    /\ ret' = Some(Val(Val(op').answer.location))
                    /\ cache'[geocode_cache_key(n)] =
                          Some([value |-> Val(ret'), ttl |-> 7 * 86400])
                    /\ \A k \in GeoKeys \ {geocode_cache_key(n)} :
                          cache'[k] = cache[k]]_vars

\* half a week after the coordinates were stored, a call with a name in
\* another case and with a leading space has been answered from the cache
C16_Witness ==
    /\ OpIs("geocode")
    /\ Val(op).city_name = <<" ", "L">>
    /\ ret = Some(LondonLocation)
    /\ events = <<>>
    /\ cache[<<"geocode", <<"l">>>>] =
          Some([value |-> LondonLocation, ttl |-> (7 * 86400) \div 2])

\* ---------------------------------------------------------------- C17
GeocodeRequests(evs) == SelectSeq(evs, LAMBDA e : e[1] = "geocode")

\* C17: a call that misses the cache issues exactly one geocoding request,
\* with timeout 10; if the service times out, is unavailable, finds no match
\* or raises any other error, the call returns None, raises nothing and
\* leaves the cache as it was.
C17_OneRequestFailuresToNone ==
    [][\A n \in CityNames \ {<<>>} :
          (GeoCallOf(n) /\ IsNone(cache[geocode_cache_key(n)])) =>
              /\ GeocodeRequests(events') = <<GeoEv("geocode", n, 10)>>
              /\ Val(op').answer.kind # "location" =>
                    /\ ret' = None
                    /\ cache' = cache]_vars

\* the service raised an error that is neither a timeout nor unavailability;
\* the call returned None after its one request
C17_Witness ==
    /\ OpIs("geocode")
    /\ Val(op).answer.kind = "Exception"
    /\ ret = None
    /\ GeocodeRequests(events) = <<GeoEv("geocode", Val(op).city_name, 10)>>
    /\ \A k \in GeoKeys : IsNone(cache[k])

\* ---------------------------------------------------------------- C18
\* the last call was a direct call of the archive client
\* and it was answered from the cache
FetchFromCache == OpIs("fetch") /\ NotNone(Val(locals).cached_data)

\* C18 as stated: as in the geocoder, an archive call answered from the cache
\* returns without the rate limiter; only a cache miss goes through
\* OPEN_METEO_RATE_LIMITER, before its single HTTP request.
C18_CachedCallSkipsLimiter ==
    /\ FetchFromCache =>
          /\ ret = Val(Val(locals).cached_data)
          /\ \A i \in 1..Len(events) : events[i][1] # "limiter"
    /\ (OpIs("fetch") /\ ~FetchFromCache) =>
          /\ events[1] = Ev("limiter", Val(op).year)
          /\ events[2] = Ev("http", Val(op).year)
          /\ Len(SelectSeq(events, LAMBDA e : e[1] = "http")) = 1

\* ---------------------------------------------------------------- C19
\* the answers that are a failure of the archive request
FailureKinds ==
    {"error", "http_status", "invalid_json", "json_not_object",
     "json_daily_not_object", "json_daily_empty", "json_time_not_list"}

FetchFailure ==
    /\ OpIs("fetch")
    /\ ~FetchFromCache
    /\ \/ Val(locals).resp.kind \in FailureKinds
       \/ Val(locals).resp = JsonResponse(PayloadNoDaily)

\* C19 as stated: for a transport error, a non-success status, a body that is
\* not valid JSON and JSON of an unexpected shape alike, the archive client
\* returns None, lets no exception escape, issues exactly one HTTP request
\* and writes nothing to the cache.
C19_EveryFailureIsNone ==
    FetchFailure =>
        /\ ret = None
        /\ Len(SelectSeq(events, LAMBDA e : e[1] = "http")) = 1
        /\ \A i \in 1..Len(events) : events[i][1] # "raw_cache_set"
        /\ \A la \in Latitudes, lo \in Longitudes :
              IsNone(cache[RawKey(la, lo, Val(op).year)])

\* ---------------------------------------------------------------- C20
\* (SpecAgg) the table in daily_df is what the preparer returned for the
\* payload in api_data_json (it never returns an empty table)
Prepared == pc # "start" /\ daily_df # Some(<<>>)

\* the payload lacks the daily container or one of the three columns
LacksColumn ==
    \/ IsNone(Val(api_data_json).daily)
    \/ IsNone(RawDaily.time)
    \/ IsNone(RawDaily.temperature_2m_mean)
    \/ IsNone(RawDaily.precipitation_sum)

\* day i of the payload holds a number for both metrics
CompleteDay(i) ==
    /\ i <= Len(Val(RawDaily.temperature_2m_mean))
    /\ i <= Len(Val(RawDaily.precipitation_sum))
    /\ Numeric(RawTemp(i))
    /\ Numeric(RawPrecip(i))

RECURSIVE UpTo(_)
UpTo(n) == IF n = 0 THEN <<>> ELSE Append(UpTo(n - 1), n)

\* the days that survive the dropping, in the order received
SurvivingRows ==
    LET days == SelectSeq(UpTo(Len(Val(RawDaily.time))), CompleteDay)
    IN  [k \in 1..Len(days) |->
            [time |-> RawTime(days[k]),
             temperature_2m_mean |-> Some(RawTemp(days[k])[2]),
             precipitation_sum |-> Some(RawPrecip(days[k])[2])]]

\* C20 as stated: the preparer returns None for every payload that lacks the
\* daily container or one of the three columns and for every payload in which
\* no row remains after the dropping; for every other payload it returns the
\* table of exactly the surviving rows in the order received.
C20_NoneOrSurvivingRows ==
    Prepared =>
        IF LacksColumn THEN daily_df = None
        ELSE IF SurvivingRows = <<>> THEN daily_df = None
        ELSE daily_df = Some(SurvivingRows)

\* C20 amended: the preparer returns None, without raising, for every payload
\* that lacks the daily container or any of the three columns, for every
\* payload whose three columns are not of one length (no table can be built
\* from them), and for every payload in which no row remains after dropping
\* the rows with a missing metric; for every other payload it returns the
\* table of exactly the surviving rows in the order received.
C20_NoneOrSurvivingRowsAligned ==
    Prepared =>
        IF LacksColumn THEN daily_df = None
        ELSE IF ~RawAligned THEN daily_df = None
        ELSE IF SurvivingRows = <<>> THEN daily_df = None
        ELSE daily_df = Some(SurvivingRows)

\* three days were received, the second lacks a metric; the table holds the
\* first and the third, in that order
C20_Witness ==
    /\ Prepared
    /\ ~LacksColumn
    /\ RawAligned
    /\ Len(Val(RawDaily.time)) = 3
    /\ CompleteDay(1) /\ ~CompleteDay(2) /\ CompleteDay(3)
    /\ RawTime(1) = 3 /\ RawTime(3) = 1
    /\ NotNone(daily_df)
    /\ Len(Val(daily_df)) = 2
    /\ Val(daily_df)[1].time = 3
    /\ Val(daily_df)[2].time = 1

\* =====================================================================
\* views.py: one task per submitted city on the worker pool
\* =====================================================================
\* both entry points hand over at most three names: the form has three
\* fields, the API keeps city_names[:3]
MAX_CITIES == 3

\* city_name.strip()[:100]
NAME_LIMIT == 100

\* The names the entry points hand over are stripped, title-cased and not
\* empty: sequences of characters. "P (T)" is a name with a qualifier in
\* parentheses.
ViewNames == {<<"L">>, <<"P">>, <<"P", " ", "(", "T", ")">>}
CityLists == UNION {[1..n -> ViewNames] : n \in 0..MAX_CITIES}

\* What happens inside one task: the worker raises, or geocoding finds the
\* city or not, and then each of the two weather calls returns data, returns
\* nothing usable (None, or no monthly_data), or raises.
TaskOutcome(raises, coordinates, current, historical) ==
    [raises |-> raises, coordinates |-> coordinates, current |-> current,
     historical |-> historical]
TaskOutcomes ==
    {TaskOutcome(TRUE, FALSE, "none", "none"),
     TaskOutcome(FALSE, FALSE, "none", "none")}
    \cup {TaskOutcome(FALSE, TRUE, c, h) : c, h \in {"data", "none", "raises"}}

\* str[:100]
truncate(str) ==
    SubSeq(str, 1, IF Len(str) < NAME_LIMIT THEN Len(str) ELSE NAME_LIMIT)

\* a card that carries current conditions, and a card that carries an error
DataCard(name, address) == [name |-> name, address |-> Some(address), error |-> None]
ErrorCard(name, address, error) ==
    [name |-> name, address |-> address, error |-> Some(error)]

\* lines 156-190: the card built from get_current_weather_data
current_weather_card(city_name, address, current) ==
    CASE current = "data" -> Some(DataCard(city_name, address))
      [] current = "raises" ->
            Some(ErrorCard(city_name, Some(address),
                           "Could not fetch current weather data"))
      [] OTHER -> None

\* lines 193-207: the chart item built from get_historical_5year_average_data;
\* its name is f"{city_name} ({year_range})"
historical_chart(city_name, historical) ==
    IF historical = "data"
    THEN Some([name |-> city_name \o <<" ", "(", "year_range", ")">>])
    ELSE None

\* (a geocoding failure that goes unnoticed)
geocoding_never_failed(coordinates) == FALSE

\* "if not coordinates"
geocoding_failed(coordinates) == ~coordinates

\* _process_city_data(city_name): what it returns (or that it raised) and
\* the calls it made
process_city_data(city_name, o) ==
    With(truncate(strip(city_name)), LAMBDA name :
        IF o.raises
        THEN [raised |-> TRUE, weather_card |-> None, chart_data |-> None,
              calls |-> <<>>]
        ELSE IF city_name = <<>> \/ name = <<>>
        THEN [raised |-> FALSE, weather_card |-> None, chart_data |-> None,
              calls |-> <<>>]
        ELSE IF geocoding_failed(o.coordinates)
        THEN [raised |-> FALSE, weather_card |-> None, chart_data |-> None,
              calls |-> <<"get_coordinates_for_city">>]
        ELSE [raised |-> FALSE,
              weather_card |-> current_weather_card(name, "address", o.current),
              chart_data |-> historical_chart(name, o.historical),
              calls |-> <<"get_coordinates_for_city", "get_current_weather_data",
                          "get_historical_5year_average_data">>])

\* (a collector that adds no card for a task that raised)
collect_without_error_card(st, city_name, r) ==
    IF r.raised
    THEN [st EXCEPT !.processing_errors = Append(@, <<"Error processing", city_name>>)]
    ELSE [weather_cards_data |->
              Append(st.weather_cards_data,
                     IF NotNone(r.weather_card) THEN Val(r.weather_card)
                     ELSE ErrorCard(city_name, None, "Could not process data")),
          chart_data_list |->
              IF NotNone(r.chart_data)
              THEN Append(st.chart_data_list, Val(r.chart_data))
              ELSE st.chart_data_list,
          processing_errors |->
              IF NotNone(r.chart_data) THEN st.processing_errors
              ELSE Append(st.processing_errors,
                          <<"No historical data available", city_name>>)]

\* lines 236-262: the body of the loop over as_completed, for the future of
\* city_name whose task ended as r
collect(st, city_name, r) ==
    IF r.raised
    THEN [weather_cards_data |->
              Append(st.weather_cards_data,
                     ErrorCard(city_name, None, "Unexpected error processing")),
          chart_data_list |-> st.chart_data_list,
          processing_errors |->
              Append(st.processing_errors, <<"Error processing", city_name>>)]
    ELSE [weather_cards_data |->
              Append(st.weather_cards_data,
                     IF NotNone(r.weather_card) THEN Val(r.weather_card)
                     ELSE ErrorCard(city_name, None, "Could not process data")),
          chart_data_list |->
              IF NotNone(r.chart_data)
              THEN Append(st.chart_data_list, Val(r.chart_data))
              ELSE st.chart_data_list,
          processing_errors |->
              IF NotNone(r.chart_data) THEN st.processing_errors
              ELSE Append(st.processing_errors,
                          <<"No historical data available", city_name>>)]

\* str.split(" (")[0]: the part before the first " ("
split_paren_first(str) ==
    LET at == {i \in 1..(Len(str) - 1) : str[i] = " " /\ str[i + 1] = "("}
    IN  IF at = {} THEN str
        ELSE SubSeq(str, 1, (CHOOSE i \in at : \A j \in at : i <= j) - 1)

\* city_names.index(city_name), counted from 0; None for ValueError
index(names, city_name) ==
    LET at == {i \in 1..Len(names) : names[i] = city_name}
    IN  IF at = {} THEN None
        ELSE Some((CHOOSE i \in at : \A j \in at : i <= j) - 1)

\* get_city_order(item)
get_city_order(item, names) ==
    With(index(names, split_paren_first(item.name)), LAMBDA position :
        IF NotNone(position) THEN Val(position) ELSE Len(names))

\* list.sort(key=get_city_order): a stable sort
sort_by_city_order(items, names) ==
    LET key == [i \in 1..Len(items) |-> get_city_order(items[i], names)]
        before(i, j) == key[i] < key[j] \/ (key[i] = key[j] /\ i < j)
        rank(i) == Cardinality({j \in 1..Len(items) : before(j, i)}) + 1
    IN  [r \in 1..Len(items) |->
            items[CHOOSE i \in 1..Len(items) : rank(i) = r]]

PendingFuture == [state |-> "pending", outcome |-> None, calls |-> <<>>]

ViewsInit ==
    /\ city_names \in CityLists
    /\ futures = [i \in 1..Len(city_names) |-> PendingFuture]
    /\ weather_cards_data = <<>>
    /\ chart_data_list = <<>>
    /\ processing_errors = <<>>
    /\ returned = None
    /\ cache_dict = <<>>
    /\ workers = <<>>
    /\ CompassUnused
    /\ LimiterUnused
    /\ api_data_json = None
    /\ daily_df = None
    /\ monthly = None
    /\ pc = "start"
    /\ cache = <<>>
    /\ op = None
    /\ ret = None
    /\ events = <<>>
    /\ locals = None
    /\ computed = <<>>
    /\ nticks = 0
    /\ window_data = <<>>
    /\ monthly_averages = None

ViewsRest == <<cache_dict, workers, compassVars, limiterVars, pipeVars,
               cacheVars, avgVars>>

\* a free worker of the pool takes the next submitted task
StartTask ==
    \E i \in 1..Len(futures) :
        /\ futures[i].state = "pending"
        /\ \A j \in 1..(i - 1) : futures[j].state # "pending"
        /\ Cardinality({j \in 1..Len(futures) : futures[j].state = "running"})
              < MAX_WORKERS
        /\ futures' = [futures EXCEPT ![i].state = "running"]
        /\ UNCHANGED <<city_names, weather_cards_data, chart_data_list,
                       processing_errors, returned, ViewsRest>>

\* a running task ends, as_completed yields its future and the loop body
\* collects its result
CompleteTask ==
    \E i \in 1..Len(futures), o \in TaskOutcomes :
        /\ futures[i].state = "running"
        /\ \E r \in {process_city_data(city_names[i], o)} :
           \E st \in {collect([weather_cards_data |-> weather_cards_data,
                               chart_data_list |-> chart_data_list,
                               processing_errors |-> processing_errors],
                              city_names[i], r)} :
              /\ futures' = [futures EXCEPT
                                ![i] = [state |-> "done", outcome |-> Some(o),
                                        calls |-> r.calls]]
              /\ weather_cards_data' = st.weather_cards_data
              /\ chart_data_list' = st.chart_data_list
              /\ processing_errors' = st.processing_errors
        /\ UNCHANGED <<city_names, returned, ViewsRest>>

\* the pool is joined; lines 264-275: both lists are sorted and returned
SortAndReturn ==
    /\ returned = None
    /\ \A i \in 1..Len(futures) : futures[i].state = "done"
    /\ weather_cards_data' = sort_by_city_order(weather_cards_data, city_names)
    /\ chart_data_list' = sort_by_city_order(chart_data_list, city_names)
    /\ returned' = Some([weather_cards_data |-> weather_cards_data',
                         chart_data_list |-> chart_data_list',
                         processing_errors |-> processing_errors])
    /\ UNCHANGED <<city_names, futures, processing_errors, ViewsRest>>

ViewsNext == StartTask \/ CompleteTask \/ SortAndReturn

SpecViews == ViewsInit /\ [][ViewsNext]_vars

\* ---------------------------------------------------------------- C21
\* the city a chart item belongs to: its name without the " (year_range)"
\* that line 199 appended
ChartCity(item) == SubSeq(item.name, 1, Len(item.name) - 4)

\* a is a subsequence of b
RECURSIVE IsSubsequence(_, _)
IsSubsequence(a, b) ==
    IF a = <<>> THEN TRUE
    ELSE IF b = <<>> THEN FALSE
    ELSE IF Head(a) = Head(b) THEN IsSubsequence(Tail(a), Tail(b))
    ELSE IsSubsequence(a, Tail(b))

NamesOf(cards) == [i \in 1..Len(cards) |-> cards[i].name]
CitiesOf(charts) == [i \in 1..Len(charts) |-> ChartCity(charts[i])]

\* C21 as stated: for every list of city names and every completion order,
\* the returned weather cards are in the input order of their cities (one
\* card per city, so their names read as the input list), and the returned
\* chart items are in input order too (their cities are a subsequence of the
\* input list).
C21_ReturnedInInputOrder ==
    NotNone(returned) =>
        /\ NamesOf(Val(returned).weather_cards_data) = city_names
        /\ IsSubsequence(CitiesOf(Val(returned).chart_data_list), city_names)

\* ---------------------------------------------------------------- C22
Tasks == 1..Len(futures)
OutcomeOf(i) == Val(futures[i].outcome)

\* the task of city i found no coordinates
GeocodingFailed(i) == ~OutcomeOf(i).raises /\ ~OutcomeOf(i).coordinates

\* every call of the task of city i came back with data
AllCallsSucceeded(i) ==
    /\ ~OutcomeOf(i).raises
    /\ OutcomeOf(i).coordinates
    /\ OutcomeOf(i).current = "data"
    /\ OutcomeOf(i).historical = "data"

Count(items, P(_)) == Cardinality({k \in 1..Len(items) : P(items[k])})
TasksNamed(n, P(_)) == Cardinality({i \in Tasks : city_names[i] = n /\ P(i)})

\* C22: when geocoding fails for a submitted city, its task makes no
\* current-conditions and no historical call and the city is returned as a
\* card with an error; every other city whose calls succeed is returned as
\* a card without error together with its chart item.
C22_GeocodingFailureIsLocal ==
    (NotNone(returned) /\ \E i \in Tasks : GeocodingFailed(i)) =>
        /\ \A i \in Tasks :
              GeocodingFailed(i) =>
                  futures[i].calls = <<"get_coordinates_for_city">>
        /\ \A n \in ViewNames :
              /\ Count(Val(returned).weather_cards_data,
                       LAMBDA card : card.name = n /\ NotNone(card.error))
                    >= TasksNamed(n, GeocodingFailed)
              /\ Count(Val(returned).weather_cards_data,
                       LAMBDA card : card.name = n /\ IsNone(card.error))
                    >= TasksNamed(n, AllCallsSucceeded)
              /\ Count(Val(returned).chart_data_list,
                       LAMBDA item : ChartCity(item) = n)
                    >= TasksNamed(n, AllCallsSucceeded)

\* three cities returned: geocoding failed for the second, the calls of the
\* first and the third succeeded, and the third task ended first
C22_Witness ==
    /\ NotNone(returned)
    /\ Len(city_names) = MAX_CITIES
    /\ AllCallsSucceeded(1)
    /\ GeocodingFailed(2)
    /\ AllCallsSucceeded(3)
    /\ Len(Val(returned).chart_data_list) = 2
    /\ processing_errors = <<<<"No historical data available", city_names[2]>>>>

\* ---------------------------------------------------------------- C28
\* C28: for every list of city names, every outcome of the tasks and every
\* completion order, the call returns exactly one weather card per
\* submitted city, and for each city exactly one of a chart item and an
\* entry of processing_errors.
C28_OneCardOneChartOrError ==
    NotNone(returned) =>
        /\ Len(Val(returned).weather_cards_data) = Len(city_names)
        /\ Len(Val(returned).chart_data_list)
              + Len(Val(returned).processing_errors) = Len(city_names)
        /\ \A n \in ViewNames :
              /\ Count(Val(returned).weather_cards_data,
                       LAMBDA card : card.name = n)
                    = TasksNamed(n, LAMBDA i : TRUE)
              /\ Count(Val(returned).chart_data_list,
                       LAMBDA item : ChartCity(item) = n)
                 + Count(Val(returned).processing_errors,
                         LAMBDA message : message[2] = n)
                    = TasksNamed(n, LAMBDA i : TRUE)

\* three cities returned: one task raised, one found no coordinates, one
\* delivered a data card and a chart item
C28_Witness ==
    /\ NotNone(returned)
    /\ Len(city_names) = MAX_CITIES
    /\ OutcomeOf(1).raises
    /\ GeocodingFailed(2)
    /\ AllCallsSucceeded(3)
    /\ Len(Val(returned).weather_cards_data) = 3
    /\ Len(Val(returned).chart_data_list) = 1
    /\ Len(Val(returned).processing_errors) = 2

\* ---------------------------------------------------------------- C23
FiveYearCall(o) == NotNone(o) /\ Val(o).name = "5year"

\* the entry of the window (start_year, end_year) of a multi-year call, as
\* the claim names it
WindowKey(o) ==
    <<"weather_5year", CHOOSE la \in Latitudes : TRUE,
      CHOOSE lo \in Longitudes : TRUE, o.year, o.end_year>>

LiveEntry(c, key) ==
    IF key \in DOMAIN c /\ NotNone(c[key]) THEN c[key] ELSE None

\* the years the annual pipeline was invoked for
AnnualCalls(evs) ==
    {evs[i][2] : i \in {j \in 1..Len(evs) : evs[j][1] = "annual_call"}}

\* C23: a call of get_historical_5year_average_data whose window
\* (start_year, end_year), start_year = end_year - num_years + 1, holds a
\* live entry returns that entry's value without invoking the annual
\* pipeline; a call whose window holds none invokes the pipeline for every
\* year of the window whatever other windows hold, and a result it returns
\* is stored under its own window for 7 * WEATHER_CACHE_DURATION. A result
\* returned is always the one of the window asked for.
C23_FiveYearCachedByWindow ==
    [][FiveYearCall(op') =>
          LET o == Val(op')
              entry == LiveEntry(cache, WindowKey(o))
          IN  /\ NotNone(entry) =>
                    /\ ret' = Some(Val(entry).value)
                    /\ AnnualCalls(events') = {}
                    /\ cache' = cache
              /\ IsNone(entry) =>
                    /\ AnnualCalls(events') = o.year..o.end_year
                    /\ NotNone(ret') =>
                          LiveEntry(cache', WindowKey(o)) =
                              Some([value |-> Val(ret'),
                                    ttl |-> 7 * WEATHER_CACHE_DURATION])
              /\ NotNone(ret') =>
                    Val(ret').year_range = <<o.year, o.end_year>>]_vars

\* half a day after the two-year window was computed, a second call for it
\* is served from its entry while the one-year window ending in the same
\* year holds another live entry
C23_Witness ==
    /\ FiveYearCall(op)
    /\ Val(op).num_years = 2
    /\ nticks >= 1
    /\ events = <<Ev("cache_hit", 0)>>
    /\ NotNone(ret)
    /\ Val(ret).year_range = <<Val(op).year, Val(op).end_year>>
    /\ NotNone(LiveEntry(cache, <<"weather_5year", 515, -1, 2022, 2022>>))
    /\ Val(LiveEntry(cache, WindowKey(Val(op)))).ttl < 7 * WEATHER_CACHE_DURATION

\* =====================================================================
\* The tasks of the worker pool inside get_historical_5year_average_data
\* =====================================================================
\* Each task of the pool makes one call (views.py:194). The tasks share the
\* cache service; cache.get and cache.set are single operations of it, and
\* a task can be overtaken between any two of them. The call of
\* get_historical_annual_data_by_month for one year is one step here.
IdleWorker ==
    [pc |-> "idle", latitude |-> 0, longitude |-> 0, year |-> 0,
     end_year |-> 0, num_years |-> 0, st |-> None, ret |-> None]

\* the locals of the loop over the years, without the cache and the events
LoopLocals(st) == [st EXCEPT !.cache = <<>>, !.events = <<>>]

WorkersInit ==
    /\ workers = [t \in Threads |-> IdleWorker]
    /\ cache = [k \in CacheKeys |-> None]
    /\ computed = [y \in Years |-> None]
    /\ nticks = 0
    /\ op = None
    /\ ret = None
    /\ events = <<>>
    /\ locals = None
    /\ city_names = <<>>
    /\ futures = <<>>
    /\ weather_cards_data = <<>>
    /\ chart_data_list = <<>>
    /\ processing_errors = <<>>
    /\ returned = None
    /\ cache_dict = <<>>
    /\ CompassUnused
    /\ LimiterUnused
    /\ api_data_json = None
    /\ daily_df = None
    /\ monthly = None
    /\ pc = "start"
    /\ window_data = <<>>
    /\ monthly_averages = None

WorkersRest == <<viewVars, cache_dict, compassVars, limiterVars, pipeVars,
                 avgVars, op, ret, events, locals, computed, nticks>>

\* views.py:194 calls get_historical_5year_average_data(latitude, longitude)
\* with the defaults: the window that ends with the last year and has the
\* default length (here: the latest and the longest the model has)
DefaultEndYear == CHOOSE y \in EndYears : \A z \in EndYears : z <= y
DefaultNumYears == CHOOSE n \in NumYearsChoices : \A m \in NumYearsChoices : m <= n

\* lines 560-570: task t calls get_historical_5year_average_data and looks
\* its window up in the cache; the pool starts the tasks in order
WorkerCall(t) ==
    \E latitude \in Latitudes, longitude \in Longitudes,
       end_year \in {DefaultEndYear}, num_years \in {DefaultNumYears} :
      \E start_year \in {end_year - num_years + 1} :
        /\ workers[t].pc = "idle"
        /\ \A u \in Threads : u < t => workers[u].pc # "idle"
        /\ \E cached_data \in {CacheGet(cache, FiveYearKey(latitude, longitude,
                                                           start_year, end_year))} :
              workers' = [workers EXCEPT ![t] =
                  [pc |-> IF NotNone(cached_data) THEN "done" ELSE "loop",
                   latitude |-> latitude, longitude |-> longitude,
                   year |-> start_year, end_year |-> end_year,
                   num_years |-> num_years,
                   st |-> IF NotNone(cached_data) THEN None
                          ELSE Some([cache |-> <<>>, events |-> <<>>,
                                     year_data |-> <<>>, missed |-> {},
                                     all_data |-> <<>>,
                                     temp_unit |-> DEFAULT_TEMP_UNIT,
                                     precip_unit |-> DEFAULT_PRECIP_UNIT]),
                   ret |-> cached_data]]
        /\ UNCHANGED <<cache, WorkersRest>>

\* lines 578-591: one pass of the loop, the annual call for workers[t].year
WorkerYear(t) ==
    /\ workers[t].pc = "loop"
    /\ \E w \in {workers[t]} :
       \E resp \in AnswersFor(cache, w.latitude, w.longitude, w.year) :
       \E a \in {get_historical_annual_data_by_month(
                    cache, w.latitude, w.longitude, w.year, resp)} :
          /\ cache' = a.cache
          /\ workers' = [workers EXCEPT ![t] =
                [w EXCEPT !.st = Some(LoopLocals(after_year(Val(w.st), a, w.year))),
                          !.year = w.year + 1,
                          !.pc = IF w.year = w.end_year THEN "set" ELSE "loop"]]
    /\ UNCHANGED WorkersRest

\* lines 593-612: the task averages what it collected, stores and returns it
WorkerReturn(t) ==
    /\ workers[t].pc = "set"
    /\ \E w \in {workers[t]} :
       \E start_year \in {w.end_year - w.num_years + 1} :
       \E r \in {five_year_from_collected(
                    [Val(w.st) EXCEPT !.cache = cache],
                    FiveYearKey(w.latitude, w.longitude, start_year, w.end_year),
                    start_year, w.end_year)} :
          /\ cache' = r.cache
          /\ workers' = [workers EXCEPT ![t] =
                [w EXCEPT !.pc = "done", !.st = None, !.ret = r.ret]]
    /\ UNCHANGED WorkersRest

\* time passes while the tasks run: a week, after which every entry is gone
WorkersTick ==
    \E d \in {WEATHER_CACHE_DURATION * 7} :
        /\ nticks < MaxTicks
        /\ nticks' = nticks + 1
        /\ cache' = CacheAfter(cache, d)
        /\ UNCHANGED <<workers, viewVars, cache_dict, compassVars, limiterVars,
                       pipeVars, avgVars, op, ret, events, locals, computed>>

WorkersNext ==
    \/ \E t \in Threads : WorkerCall(t)
    \/ \E t \in Threads : WorkerYear(t)
    \/ \E t \in Threads : WorkerReturn(t)
    \/ WorkersTick

SpecWorkers == WorkersInit /\ [][WorkersNext]_vars

\* ---------------------------------------------------------------- C24
\* C24 as stated: an entry leaves the cache only by expiring, and a key that
\* holds a live entry is never given another value, in every interleaving
\* of up to 3 tasks.
C24_EntriesImmutable ==
    [][\A k \in DOMAIN cache :
          NotNone(cache[k]) =>
              /\ IsNone(cache'[k]) => nticks' # nticks
              /\ NotNone(cache'[k]) =>
                    Val(cache'[k]).value = Val(cache[k]).value]_vars

\* ---------------------------------------------------------------- C25
\* C25: with a single caller, no window of length time_period that starts
\* at an admission holds more than calls_limit admitted calls (so no
\* rolling window does), and self.calls_timestamps never holds more than
\* calls_limit + 1 entries.
C25_SingleCallerQuota ==
    SingleCaller =>
        /\ \A i \in 1..Len(admitted) :
              Cardinality(AdmittedInWindow(admitted[i].at)) <= limiter.calls_limit
        /\ Len(calls_timestamps) <= limiter.calls_limit + 1

\* one thread has made calls_limit + 1 calls on the largest instance; the
\* last one slept, and the log holds calls_limit + 1 timestamps
C25_Witness ==
    /\ SingleCaller
    /\ limiter = RateLimiter(MaxLimit, MaxPeriod)
    /\ Len(admitted) = limiter.calls_limit + 1
    /\ admitted[Len(admitted)].full
    /\ Len(calls_timestamps) = limiter.calls_limit + 1
    /\ Cardinality(AdmittedInWindow(admitted[1].at)) = limiter.calls_limit

\* ---------------------------------------------------------------- C26
\* thread t goes to sleep in this step
GoesToSleep(t) == threads[t].pc = "check" /\ threads'[t].pc = "sleep"

\* C26 (the bound on the sleep) as stated: whenever a call of
\* wait_if_needed sleeps, the duration it asks time.sleep for is positive
\* and no longer than time_period; a call sleeps at most once and appends
\* exactly one timestamp when it returns.
C26_SleepsAtMostOnePeriod ==
    [][\A t \in Threads :
          /\ GoesToSleep(t) =>
                /\ threads'[t].wake - clock > 0
                /\ threads'[t].wake - clock <= limiter.time_period
          /\ threads[t].pc = "sleep" => threads'[t].pc \in {"sleep", "append"}
          /\ (threads[t].pc = "append" /\ threads'[t].pc = "idle") =>
                /\ Len(admitted') = Len(admitted) + 1
                /\ calls_timestamps' = Append(calls_timestamps, clock)]_vars

\* =====================================================================
\* The memoize decorator around _aggregate_daily_data_to_monthly
\* =====================================================================
\* str(DataFrame) with the library's default display options: a table of
\* more than display.max_rows = 60 rows is rendered by display.min_rows = 10
\* of them, the first five and the last five, an ellipsis between them and
\* the shape "[n rows x 2 columns]" below. Values are printed with six
\* decimals, which shows every value of the model (thousandths) in full.
DISPLAY_MAX_ROWS == 60
DISPLAY_MIN_ROWS == 10

\* str(daily_df): <<kind, rows shown first, rows shown last, rows counted>>
str_table(df) ==
    IF IsNone(df) THEN <<"None", <<>>, <<>>, 0>>
    ELSE IF Val(df) = <<>> THEN <<"Empty DataFrame", <<>>, <<>>, 0>>
    ELSE IF Len(Val(df)) > DISPLAY_MAX_ROWS
    THEN <<"truncated",
           SubSeq(Val(df), 1, DISPLAY_MIN_ROWS \div 2),
           SubSeq(Val(df), Len(Val(df)) - DISPLAY_MIN_ROWS \div 2 + 1, Len(Val(df))),
           Len(Val(df))>>
    ELSE <<"full", Val(df), <<>>, 0>>

\* key = str(args) + str(sorted(kwargs.items())), for the call (daily_df, year)
memoize_key(df, year) == <<str_table(df), year>>

\* wrapper(*args): d is cache_dict, an optional result per key
memoize_wrapper(d, df, year) ==
    With(memoize_key(df, year), LAMBDA key :
        IF NotNone(d[key])
        THEN [ret |-> Val(d[key]), cache_dict |-> d]
        ELSE With(aggregate_daily_data_to_monthly(df, year), LAMBDA result :
                 [ret |-> result,
                  cache_dict |-> [d EXCEPT ![key] = Some(result)]]))

\* The tables handed to the aggregator: none, a prepared table of two rows, and
\* tables of DISPLAY_MAX_ROWS + 1 days (January and the start of February)
\* that differ in the temperature of the first day and of 31 January.
DayRow(month, temperature, precipitation) ==
    [time |-> month, temperature_2m_mean |-> Some(temperature),
     precipitation_sum |-> Some(precipitation)]

LongTable(first, last_of_january) ==
    [i \in 1..(DISPLAY_MAX_ROWS + 1) |->
        DayRow(IF i <= 31 THEN 1 ELSE 2,
               IF i = 1 THEN first
               ELSE IF i = 31 THEN last_of_january ELSE 10000,
               1000)]

MemoTables ==
    {None, Some(<<DayRow(1, 10000, 1000), DayRow(3, 12015, 2004)>>)}
    \cup {Some(LongTable(a, b)) : a \in {10000, 12000}, b \in {10000, 40000}}

MemoKeys == {memoize_key(df, year) : df \in MemoTables, year \in Years}

MemoInit ==
    /\ cache_dict = [key \in MemoKeys |-> None]
    /\ daily_df = None
    /\ monthly = None
    /\ op = None
    /\ api_data_json = None
    /\ pc = "start"
    /\ cache = <<>>
    /\ ret = None
    /\ events = <<>>
    /\ locals = None
    /\ computed = <<>>
    /\ nticks = 0
    /\ city_names = <<>>
    /\ futures = <<>>
    /\ weather_cards_data = <<>>
    /\ chart_data_list = <<>>
    /\ processing_errors = <<>>
    /\ returned = None
    /\ workers = <<>>
    /\ CompassUnused
    /\ LimiterUnused
    /\ window_data = <<>>
    /\ monthly_averages = None

\* a caller calls _aggregate_daily_data_to_monthly(df, year), the decorated
\* function
CallMemoized ==
    \E df \in MemoTables, year \in Years :
      \E r \in {memoize_wrapper(cache_dict, df, year)} :
        /\ cache_dict' = r.cache_dict
        /\ daily_df' = df
        /\ monthly' = Some(r.ret)
        /\ op' = Some([name |-> "aggregate", year |-> year, end_year |-> year,
                       num_years |-> 1])
        /\ UNCHANGED <<api_data_json, pc, cache, ret, events, locals, computed,
                       nticks, viewVars, workers, compassVars, limiterVars,
                       avgVars>>

MemoNext == CallMemoized

SpecMemo == MemoInit /\ [][MemoNext]_vars

\* ---------------------------------------------------------------- C27
\* C27 as stated: after any sequence of calls, the decorated aggregator
\* returns the aggregation of the table it was given.
C27_MemoizedEqualsUnmemoized ==
    NotNone(monthly) =>
        Val(monthly) = aggregate_daily_data_to_monthly(daily_df, Val(op).year)

\* ---------------------------------------------------------------- C29
\* the call returned the failure sentinel
FailedCall(o, r) ==
    NotNone(o) /\ Val(o).name \in {"annual", "5year"} /\ IsNone(r)

\* the archive requests among the events of a call
Requests(evs) == {i \in 1..Len(evs) : evs[i][1] = "http"}

\* C29 as stated: a failure is not remembered, so when a call of the annual
\* or the multi-year function has returned None, the next call with the
\* same arguments issues a fresh request to the archive.
C29_FailureNotRemembered ==
    [][(FailedCall(op, ret) /\ op' = op) => Requests(events') # {}]_vars

\* ---------------------------------------------------------------- C30
\* the call that has just returned was made with the name n and stored the
\* coordinates it found
StoredFor(n) ==
    /\ OpIs("geocode")
    /\ Val(op).city_name = n
    /\ \E i \in 1..Len(events) : events[i][1] = "cache_set"

\* this step is a call with the name n that is answered from the entry the
\* call before it stored
ServedFromThatEntry(n) ==
    /\ GeoCallOf(n)
    /\ NotNone(ret')
    /\ events' = <<>>
    /\ Val(locals').cache_key = Val(locals).cache_key

\* C30 as stated: two names share a cache key only if they differ at most
\* in case and surrounding whitespace, so a call is answered from the entry
\* another call stored only if both were made for the same city name up to
\* case and surrounding whitespace.
C30_EntryOnlyForItsCity ==
    [][\A a \in CityNames \ {<<>>}, b \in CityNames \ {<<>>} :
          /\ (GeoCallOf(a) /\ geocode_cache_key(a) = geocode_cache_key(b)) =>
                SameCity(a, b)
          /\ (StoredFor(a) /\ ServedFromThatEntry(b)) => SameCity(a, b)]_vars
====
